---- MODULE Spec2Model ----
(***************************************************************************)
(* A model of the rich-text-editor library's asynchronous parts:           *)
(*   - the file-upload lifecycle of createFileUploadPlugin (validation,    *)
(*     placeholder insertion, completion, failure, teardown, batches);     *)
(*   - the mention search and menu of createMentionPlugin /                *)
(*     MentionSuggestion (search, selection, commit of a mention node);    *)
(*   - the slash commands (built-in list, filterCommands, groupCommands,   *)
(*     the menu session of the RichTextEditor shell);                      *)
(*   - the shell's plugin lifecycle (merged commands, onInit, onDestroy).  *)
(*   - editors mounted side by side and the plugin objects they share;    *)
(*   - attachment and mention nodes as HTML (renderHTML, parseHTML).       *)
(*                                                                         *)
(* The document is the editor's ProseMirror document, kept as its flat     *)
(* token sequence: a paragraph is an open token, its inline nodes, and a   *)
(* close token; every token has size 1, so a ProseMirror position is an    *)
(* index between two tokens (0 .. Len(doc)).                               *)
(* Strings the code inspects (MIME types, file names, accept patterns,     *)
(* queries) are sequences of one-character strings.                        *)
(***************************************************************************)
EXTENDS Integers, Sequences, FiniteSets, TLC

VARIABLES
    doc,             \* editor.state.doc, as a token sequence
    sel,             \* editor.state.selection: [from, to], positions in doc
    undoStack,       \* history: states an undo returns to (most recent last)
    redoStack,       \* history: states a redo returns to (most recent last)
    destroyed,       \* editor.isDestroyed
    uploadIdCounter, \* the module-level counter of generateUploadId
    batches,         \* one record per running onchange / handleDrop / handlePaste
    tasks,           \* one record per uploadFile call, in call order
    userSteps,       \* how many times the user has acted on the editor so far
    mention,         \* the mention suggestion session
    clock,           \* time in milliseconds
    searches,        \* host onSearch calls and their state, in call order
    shell,           \* the RichTextEditor shell: its plugins prop and hook calls
    slash,           \* the slash-command suggestion session and its menu
    calc,            \* a call of filterCommands / groupCommands and its result
    instances        \* editors mounted side by side and the plugin objects given to them

vars == <<doc, sel, undoStack, redoStack, destroyed, uploadIdCounter,
          batches, tasks, userSteps, mention, clock, searches,
          shell, slash, calc, instances>>

uploadVars == <<doc, sel, undoStack, redoStack, destroyed, uploadIdCounter,
                batches, tasks, userSteps>>

shellVars == <<shell, slash, calc, instances>>

-----------------------------------------------------------------------------
(* Bounds of the model *)

\* most text characters in the document at a time
MaxText == 1
\* most actions of the user on the editor in one behaviour
MaxUserSteps == 2
\* most batches (drops, pastes, file-picker selections) while the user edits
MaxBatches == 1
\* most batches that overlap when the user does not edit
MaxOverlap == 2
\* most uploadFile calls made so far plus files offered, when a batch starts
MaxTasks == 2
\* depth of the undo history that is kept
MaxUndo == 1
\* largest value Date.now() takes
MaxNow == 1
\* milliseconds between two instants the model tells apart
TickMs == 50
\* last instant of a mention session
MaxClock == 200
\* longest mention query
MaxQuery == 2
\* most onSearch calls in one behaviour
MaxSearches == 3
\* most plugins in the plugins prop
MaxPlugins == 3
MaxCommands == 3
MaxSessions == 2
\* editors mounted side by side
MaxEditors == 2
\* most files offered to the mounted editors
MaxOffered == 2

-----------------------------------------------------------------------------
(* Strings as character sequences *)

Null == <<>>

StartsWith(s, p) ==
    /\ Len(p) <= Len(s)
    /\ SubSeq(s, 1, Len(p)) = p

EndsWith(s, p) ==
    /\ Len(p) <= Len(s)
    /\ SubSeq(s, Len(s) - Len(p) + 1, Len(s)) = p

UpperCase ==
    <<"A", "B", "C", "D", "E", "F", "G", "H", "I", "J", "K", "L", "M",
      "N", "O", "P", "Q", "R", "S", "T", "U", "V", "W", "X", "Y", "Z">>

LowerCase ==
    <<"a", "b", "c", "d", "e", "f", "g", "h", "i", "j", "k", "l", "m",
      "n", "o", "p", "q", "r", "s", "t", "u", "v", "w", "x", "y", "z">>

LowerChar(c) ==
    IF \E i \in 1..Len(UpperCase) : UpperCase[i] = c
    THEN LowerCase[CHOOSE i \in 1..Len(UpperCase) : UpperCase[i] = c]
    ELSE c

ToLower(s) == [i \in 1..Len(s) |-> LowerChar(s[i])]

\* String.prototype.includes
Includes(s, sub) ==
    \E i \in 0..(Len(s) - Len(sub)) : SubSeq(s, i + 1, i + Len(sub)) = sub

-----------------------------------------------------------------------------
(* The plugin's options (FileUploadPluginOptions) and the files offered *)

\* options.maxSize, in model size units (the code's default is 10 * 1024 * 1024)
maxSize == 2

\* options.accept: a wildcard, an extension and an exact MIME type
accept == << <<"a", "/", "*">>, <<".", "p">>, <<"c", "/", "y">> >>

\* options.displayModeByType, in key order
displayModeByType ==
    << [pattern |-> <<"a", "/", "*">>, mode |-> "block"],
       [pattern |-> <<"a", "/", "x">>, mode |-> "inline"],
       [pattern |-> <<"c", "/", "*">>, mode |-> "block"] >>

\* options.defaultDisplayMode ?? 'inline'
defaultDisplayMode == "inline"

File(name, size, type) == [name |-> name, size |-> size, type |-> type]

\* accepted by the wildcard a/*, size below the maximum
fileWild == File(<<"f", ".", "q">>, 1, <<"a", "/", "x">>)
\* accepted by the exact type c/y, size equal to the maximum
fileExact == File(<<"g", ".", "q">>, 2, <<"c", "/", "y">>)
\* accepted by the extension .p (upper case in the name)
fileExt == File(<<"h", ".", "P">>, 1, <<"b", "/", "z">>)
\* larger than the maximum
fileBig == File(<<"f", ".", "p">>, 3, <<"a", "/", "x">>)
\* no pattern matches
fileOther == File(<<"k", ".", "q">>, 1, <<"b", "/", "z">>)
\* MIME type ab/x: its major type is not a, but the text "ab/x" starts with "a"
filePrefix == File(<<"m", ".", "q">>, 1, <<"a", "b", "/", "x">>)

\* no MIME type at all (a clipboard entry that is not a file with a type)
fileNoType == File(<<"n", ".", "q">>, 1, <<>>)

Files == {fileWild, fileExact, fileExt, fileBig, fileOther, filePrefix, fileNoType}

\* the files offered while the user edits: an inline one and a block one
EditedFiles == {fileWild, fileExact}

\* the files offered in overlapping batches: one accepted, one too large
OverlapFiles == {fileWild, fileBig}

\* the values a host upload promise resolves with
Urls == {"url1"}

\* the values a host upload promise rejects with: an Error, or something else
Rejections == {[isError |-> TRUE, message |-> "boom"],
               [isError |-> FALSE, message |-> "text"]}

-----------------------------------------------------------------------------
(* uploadFile: validation *)

\* one pattern of options.accept against a file
PatternMatches(pattern, file) ==
    IF StartsWith(pattern, <<".">>)
    THEN EndsWith(ToLower(file.name), ToLower(pattern))
    ELSE IF EndsWith(pattern, <<"/", "*">>)
         THEN StartsWith(file.type, SubSeq(pattern, 1, Len(pattern) - 2))
         ELSE file.type = pattern

\* options.accept.some(...)
isAccepted(file) ==
    \E i \in 1..Len(accept) : PatternMatches(accept[i], file)

\* the verdict of uploadFile's two checks, in the code's order
Validate(file) ==
    IF file.size > maxSize THEN "size"
    ELSE IF Len(accept) > 0 /\ ~isAccepted(file) THEN "type"
    ELSE "accepted"

RECURSIVE WildcardMode(_, _, _)
\* the for-loop of getDisplayModeForType over the keys from index i on
WildcardMode(mimeType, i, defaultMode) ==
    IF i > Len(displayModeByType) THEN defaultMode
    ELSE LET pattern == displayModeByType[i].pattern
         IN IF /\ EndsWith(pattern, <<"/", "*">>)
               /\ StartsWith(mimeType,
                        SubSeq(pattern, 1, Len(pattern) - 2) \o <<"/">>)
            THEN displayModeByType[i].mode
            ELSE WildcardMode(mimeType, i + 1, defaultMode)

\* a lookup that tries the wildcard patterns before the exact key
getDisplayModeForTypeWildcardFirst(mimeType, defaultMode) ==
    WildcardMode(mimeType, 1,
                 IF \E i \in 1..Len(displayModeByType) :
                        displayModeByType[i].pattern = mimeType
                 THEN LET i == CHOOSE j \in 1..Len(displayModeByType) :
                                    displayModeByType[j].pattern = mimeType
                      IN displayModeByType[i].mode
                 ELSE defaultMode)

getDisplayModeForType(mimeType, defaultMode) ==
    IF Len(displayModeByType) = 0 THEN defaultMode
    ELSE IF \E i \in 1..Len(displayModeByType) :
                displayModeByType[i].pattern = mimeType
         THEN LET i == CHOOSE j \in 1..Len(displayModeByType) :
                            displayModeByType[j].pattern = mimeType
              IN displayModeByType[i].mode
         ELSE WildcardMode(mimeType, 1, defaultMode)

\* `upload-${Date.now()}-${++uploadIdCounter}`, with the counter already
\* incremented: the pieces of the text, each number as one piece
FormatUploadId(now, counter) == <<"upload", "-", now, "-", counter>>

-----------------------------------------------------------------------------
(* The document *)

POpen == [type |-> "paragraph_open"]
PClose == [type |-> "paragraph_close"]
TextNode == [type |-> "text", text |-> "t"]

IsAttachment(tok) == tok.type = "fileAttachment"

InlineNodes(d) == {k \in 1..Len(d) : d[k].type \in {"text", "fileAttachment"}}

\* number of paragraphs open at position pos (0 between blocks, 1 inside one)
RECURSIVE Depth(_, _)
Depth(d, pos) ==
    IF pos = 0 THEN 0
    ELSE Depth(d, pos - 1)
         + (IF d[pos].type = "paragraph_open" THEN 1
            ELSE IF d[pos].type = "paragraph_close" THEN -1 ELSE 0)

\* the positions a text selection can end at
CursorPositions(d) == {pos \in 0..Len(d) : Depth(d, pos) = 1}

\* a cursor, or a selection of one inline node
Selections(d) ==
    {[from |-> pos, to |-> pos] : pos \in CursorPositions(d)}
        \cup {[from |-> k - 1, to |-> k] : k \in InlineNodes(d)}

\* tr.replaceWith(from, to, content) on the token sequence
Replace(d, from, to, content) ==
    SubSeq(d, 1, from) \o content \o SubSeq(d, to + 1, Len(d))

\* the attributes uploadFile gives a placeholder (placeholderAttrs), with the
\* extension's defaults for the attributes it leaves out
PlaceholderNode(file, uploadId, displayMode) ==
    [type |-> "fileAttachment",
     src |-> "",
     name |-> file.name,
     size |-> file.size,
     mimeType |-> file.type,
     displayMode |-> displayMode,
     alignment |-> "left",
     width |-> Null,
     uploading |-> TRUE,
     uploadId |-> uploadId]

\* commands.setFileAttachment: insertContent of the inline node over the
\* selection; the selection ends up behind the node
setFileAttachment(d, s, node) ==
    [doc |-> Replace(d, s.from, s.to, <<node>>),
     sel |-> [from |-> s.from + 1, to |-> s.from + 1]]

\* commands.setFileAttachmentBlock: insertContent of a paragraph holding the
\* node.  An empty paragraph under a collapsed selection is replaced by it;
\* otherwise the paragraph is split at the selection, and the part behind the
\* selection is dropped when it is empty.
setFileAttachmentBlock(d, s, node) ==
    IF /\ s.from = s.to
       /\ d[s.from].type = "paragraph_open"
       /\ d[s.from + 1].type = "paragraph_close"
    THEN [doc |-> Replace(d, s.from, s.to, <<node>>),
          sel |-> [from |-> s.from + 1, to |-> s.from + 1]]
    ELSE IF d[s.to + 1].type = "paragraph_close"
    THEN [doc |-> Replace(d, s.from, s.to, <<PClose, POpen, node>>),
          sel |-> [from |-> s.from + 3, to |-> s.from + 3]]
    ELSE [doc |-> Replace(d, s.from, s.to, <<PClose, POpen, node, PClose, POpen>>),
          sel |-> [from |-> s.from + 3, to |-> s.from + 3]]

\* the token indexes doc.descendants visits with a matching fileAttachment:
\* returning false from the callback only keeps it from entering the node,
\* so every match is visited
MatchingNodes(d, uploadId) ==
    {k \in 1..Len(d) : IsAttachment(d[k]) /\ d[k].uploadId = uploadId}

\* a completion that sets src and leaves the upload flags as they were
completeFileUploadSrcOnly(d, uploadId, src) ==
    [k \in 1..Len(d) |->
        IF k \in MatchingNodes(d, uploadId)
        THEN [d[k] EXCEPT !.src = src]
        ELSE d[k]]

\* a completion that clears the uploading flag and leaves the uploadId
completeFileUploadKeepId(d, uploadId, src) ==
    [k \in 1..Len(d) |->
        IF k \in MatchingNodes(d, uploadId)
        THEN [d[k] EXCEPT !.src = src, !.uploading = FALSE]
        ELSE d[k]]

\* the transaction of completeFileUpload: setNodeMarkup on every match
completeFileUpload(d, uploadId, src) ==
    [k \in 1..Len(d) |->
        IF k \in MatchingNodes(d, uploadId)
        THEN [d[k] EXCEPT !.src = src, !.uploading = FALSE, !.uploadId = Null]
        ELSE d[k]]

Remove(d, k) == SubSeq(d, 1, k - 1) \o SubSeq(d, k + 1, Len(d))

RECURSIVE DeleteEach(_, _)
\* tr.delete(pos, pos + node.nodeSize) for each match in document order, every
\* position taken from the document the command started with
DeleteEach(d, ks) ==
    IF ks = {} THEN d
    ELSE LET k == CHOOSE x \in ks : \A y \in ks : x <= y
             cut == IF k <= Len(d) THEN Remove(d, k) ELSE d
         IN DeleteEach(cut, ks \ {k})

\* a failure whose tr.delete covers an empty range
failFileUploadEmptyRange(d, uploadId) == d

\* the transaction of failFileUpload
failFileUpload(d, uploadId) == DeleteEach(d, MatchingNodes(d, uploadId))

\* a position mapped through the deletion of the tokens ks
MapPos(pos, ks) == pos - Cardinality({k \in ks : k <= pos})

MapSel(s, ks) == [from |-> MapPos(s.from, ks), to |-> MapPos(s.to, ks)]

-----------------------------------------------------------------------------
(* Nodes as HTML: the attribute specs, renderHTML and parseHTML *)

\* JavaScript values of node attributes: a tag and the value's text (a
\* number is kept as its decimal digits, an object as its JSON text)
JsNull == [t |-> "null", v |-> <<>>]
JsString(s) == [t |-> "string", v |-> s]
JsNumber(digits) == [t |-> "number", v |-> digits]
JsBoolean(b) ==
    [t |-> "boolean",
     v |-> IF b THEN <<"t", "r", "u", "e">> ELSE <<"f", "a", "l", "s", "e">>]
JsObject(json) == [t |-> "object", v |-> json]

Digits == <<"0", "1", "2", "3", "4", "5", "6", "7", "8", "9">>
IsDigit(c) == \E i \in 1..Len(Digits) : Digits[i] = c
AllDigits(s) == \A i \in 1..Len(s) : IsDigit(s[i])

\* String(value), the conversion setAttribute applies to its argument
StringOf(x) ==
    IF x.t = "object"
    THEN <<"[", "o", "b", "j", "e", "c", "t", " ", "O", "b", "j", "e", "c", "t", "]">>
    ELSE x.v

\* value || fallback
Falsy(x) ==
    \/ x.t = "null"
    \/ x.t = "string" /\ x.v = <<>>
    \/ x.t = "number" /\ x.v = <<"0">>
    \/ x = JsBoolean(FALSE)

\* an attribute of the rendered element: left out for null, else the string
\* of the value
SetAttribute(x) == IF x.t = "null" THEN JsNull ELSE JsString(StringOf(x))

\* the text matches /^[+-]?(?:\d*\.)?\d+$/
MatchesNumber(s) ==
    LET u == IF s # <<>> /\ s[1] \in {"+", "-"} THEN Tail(s) ELSE s IN
    \E n \in 0..(Len(u) - 1) :
        /\ n = 0 \/ (u[n] = "." /\ AllDigits(SubSeq(u, 1, n - 1)))
        /\ AllDigits(SubSeq(u, n + 1, Len(u)))

RECURSIVE StripZeros(_)
StripZeros(s) == IF Len(s) > 1 /\ s[1] = "0" THEN StripZeros(Tail(s)) ELSE s

\* Number(text) for a text of digits with an optional sign, as its decimal
\* digits (decimal fractions are not among the values drawn)
ToNumber(s) ==
    LET u == StripZeros(IF s[1] \in {"+", "-"} THEN Tail(s) ELSE s) IN
    IF s[1] = "-" /\ u # <<"0">> THEN <<"-">> \o u ELSE u

\* the value of an attribute without a parseHTML of its own: the element's
\* attribute text, read as a number or a boolean when it looks like one
fromString(x) ==
    IF x.t # "string" THEN x
    ELSE IF MatchesNumber(x.v) THEN JsNumber(ToNumber(x.v))
    ELSE IF x.v = JsBoolean(TRUE).v THEN JsBoolean(TRUE)
    ELSE IF x.v = JsBoolean(FALSE).v THEN JsBoolean(FALSE)
    ELSE x

\* the parsed attribute: the spec's default when the element gives no value
ParseAttribute(x, default) ==
    LET value == fromString(x) IN
    IF value.t = "null" THEN default ELSE value

Inline == <<"i", "n", "l", "i", "n", "e">>
Block == <<"b", "l", "o", "c", "k">>
Left == <<"l", "e", "f", "t">>
Center == <<"c", "e", "n", "t", "e", "r">>

\* the element the attachment extension's renderHTML gives for a node.  Its
\* HTMLAttributes are the attributes addAttributes lets through: uploading and
\* uploadId render to nothing (renderHTML: () => ({})), the others go out
\* under their own names; the three data- attributes are merged in.
renderHTML(attrs) ==
    [tag |-> "span",
     src |-> SetAttribute(attrs.src),
     name |-> SetAttribute(attrs.name),
     size |-> SetAttribute(attrs.size),
     mimeType |-> SetAttribute(attrs.mimeType),
     displayMode |-> SetAttribute(attrs.displayMode),
     alignment |-> SetAttribute(attrs.alignment),
     width |-> SetAttribute(attrs.width),
     dataFileAttachment |-> JsString(<<>>),
     dataDisplayMode |-> SetAttribute(IF Falsy(attrs.displayMode)
                                      THEN JsString(Inline) ELSE attrs.displayMode),
     dataAlignment |-> SetAttribute(IF Falsy(attrs.alignment)
                                    THEN JsString(Left) ELSE attrs.alignment)]

\* the attributes parsed from a span / div carrying data-file-attachment:
\* uploading is parsed as false and uploadId as null whatever the element
\* holds (parseHTML: () => false, parseHTML: () => null)
parseHTML(el) ==
    [src |-> ParseAttribute(el.src, JsString(<<>>)),
     name |-> ParseAttribute(el.name, JsString(<<>>)),
     size |-> ParseAttribute(el.size, JsNumber(<<"0">>)),
     mimeType |-> ParseAttribute(el.mimeType, JsString(<<>>)),
     displayMode |-> ParseAttribute(el.displayMode, JsString(Inline)),
     alignment |-> ParseAttribute(el.alignment, JsString(Left)),
     width |-> ParseAttribute(el.width, JsNull),
     uploading |-> JsBoolean(FALSE),
     uploadId |-> JsNull]

\* the element the mention extension's renderHTML gives for a node:
\* the four attributes under their own names, data-mention,
\* data-mention-id, class, and the text @label
mentionRenderHTML(attrs) ==
    [tag |-> "span",
     id |-> SetAttribute(attrs.id),
     label |-> SetAttribute(attrs.label),
     avatar |-> SetAttribute(attrs.avatar),
     metadata |-> SetAttribute(attrs.metadata),
     dataMention |-> JsString(<<>>),
     dataMentionId |-> SetAttribute(attrs.id),
     class |-> JsString(<<"m", "e", "n", "t", "i", "o", "n">>),
     text |-> <<"@">> \o StringOf(attrs.label)]

\* the attributes parsed from a span carrying data-mention
mentionParseHTML(el) ==
    [id |-> ParseAttribute(el.id, JsString(<<>>)),
     label |-> ParseAttribute(el.label, JsString(<<>>)),
     avatar |-> ParseAttribute(el.avatar, JsNull),
     metadata |-> ParseAttribute(el.metadata, JsNull)]

\* the attributes of an attachment node of the document as JavaScript values
Attrs(node) ==
    [src |-> JsString(IF node.src = "" THEN <<>> ELSE <<node.src>>),
     name |-> JsString(node.name),
     size |-> JsNumber(<<Digits[node.size + 1]>>),
     mimeType |-> JsString(node.mimeType),
     displayMode |-> JsString(IF node.displayMode = "block" THEN Block ELSE Inline),
     alignment |-> JsString(Left),
     width |-> JsNull,
     uploading |-> JsBoolean(node.uploading),
     uploadId |-> IF node.uploadId = Null THEN JsNull ELSE JsString(node.uploadId)]

-----------------------------------------------------------------------------
(* History (StarterKit's undo/redo) *)

Snapshot == [doc |-> doc, sel |-> sel]

\* the newest MaxUndo entries of a stack
Trim(stack) ==
    IF Len(stack) > MaxUndo
    THEN SubSeq(stack, Len(stack) - MaxUndo + 1, Len(stack))
    ELSE stack

\* view.dispatch(tr) of a transaction that changes the document
Dispatch(newDoc, newSel) ==
    /\ doc' = newDoc
    /\ sel' = newSel
    /\ undoStack' = Trim(Append(undoStack, Snapshot))
    /\ redoStack' = <<>>

-----------------------------------------------------------------------------
(* Slash commands: the built-in list, filtering and grouping *)

\* a SlashCommand: its texts, its group, and its action by name
Command(name, description, aliases, group, action) ==
    [name |-> name, description |-> description, aliases |-> aliases,
     group |-> group, action |-> action]

cmdText ==
    Command(
        <<"T", "e", "x", "t">>,
        <<"J", "u", "s", "t", " ", "s", "t", "a", "r", "t", " ", "w", "r", "i",
          "t", "i", "n", "g", " ", "w", "i", "t", "h", " ", "p", "l", "a", "i",
          "n", " ", "t", "e", "x", "t">>,
        << <<"p", "a", "r", "a", "g", "r", "a", "p", "h">>,
           <<"p">> >>,
        "basic", "setParagraph")

cmdHeading1 ==
    Command(
        <<"H", "e", "a", "d", "i", "n", "g", " ", "1">>,
        <<"L", "a", "r", "g", "e", " ", "s", "e", "c", "t", "i", "o", "n", " ",
          "h", "e", "a", "d", "i", "n", "g">>,
        << <<"h", "1">>,
           <<"t", "i", "t", "l", "e">> >>,
        "basic", "toggleHeading1")

cmdHeading2 ==
    Command(
        <<"H", "e", "a", "d", "i", "n", "g", " ", "2">>,
        <<"M", "e", "d", "i", "u", "m", " ", "s", "e", "c", "t", "i", "o", "n",
          " ", "h", "e", "a", "d", "i", "n", "g">>,
        << <<"h", "2">>,
           <<"s", "u", "b", "t", "i", "t", "l", "e">> >>,
        "basic", "toggleHeading2")

cmdHeading3 ==
    Command(
        <<"H", "e", "a", "d", "i", "n", "g", " ", "3">>,
        <<"S", "m", "a", "l", "l", " ", "s", "e", "c", "t", "i", "o", "n", " ",
          "h", "e", "a", "d", "i", "n", "g">>,
        << <<"h", "3">> >>,
        "basic", "toggleHeading3")

cmdBulletList ==
    Command(
        <<"B", "u", "l", "l", "e", "t", " ", "L", "i", "s", "t">>,
        <<"C", "r", "e", "a", "t", "e", " ", "a", " ", "s", "i", "m", "p", "l",
          "e", " ", "b", "u", "l", "l", "e", "t", " ", "l", "i", "s", "t">>,
        << <<"u", "l">>,
           <<"u", "n", "o", "r", "d", "e", "r", "e", "d">>,
           <<"b", "u", "l", "l", "e", "t", "s">> >>,
        "lists", "toggleBulletList")

cmdNumberedList ==
    Command(
        <<"N", "u", "m", "b", "e", "r", "e", "d", " ", "L", "i", "s", "t">>,
        <<"C", "r", "e", "a", "t", "e", " ", "a", " ", "n", "u", "m", "b", "e",
          "r", "e", "d", " ", "l", "i", "s", "t">>,
        << <<"o", "l">>,
           <<"o", "r", "d", "e", "r", "e", "d">>,
           <<"n", "u", "m", "b", "e", "r", "s">> >>,
        "lists", "toggleOrderedList")

cmdTaskList ==
    Command(
        <<"T", "a", "s", "k", " ", "L", "i", "s", "t">>,
        <<"T", "r", "a", "c", "k", " ", "t", "a", "s", "k", "s", " ", "w", "i",
          "t", "h", " ", "a", " ", "t", "o", "-", "d", "o", " ", "l", "i", "s",
          "t">>,
        << <<"t", "o", "d", "o">>,
           <<"c", "h", "e", "c", "k", "b", "o", "x">>,
           <<"c", "h", "e", "c", "k", "l", "i", "s", "t">> >>,
        "lists", "toggleTaskList")

cmdInlineCode ==
    Command(
        <<"I", "n", "l", "i", "n", "e", " ", "C", "o", "d", "e">>,
        <<"M", "a", "r", "k", " ", "t", "e", "x", "t", " ", "a", "s", " ", "i",
          "n", "l", "i", "n", "e", " ", "c", "o", "d", "e">>,
        << <<"c", "o", "d", "e">>,
           <<"m", "o", "n", "o", "s", "p", "a", "c", "e">>,
           <<"m", "o", "n", "o">> >>,
        "formatting", "toggleCode")

cmdHighlight ==
    Command(
        <<"H", "i", "g", "h", "l", "i", "g", "h", "t">>,
        <<"H", "i", "g", "h", "l", "i", "g", "h", "t", " ", "i", "m", "p", "o",
          "r", "t", "a", "n", "t", " ", "t", "e", "x", "t">>,
        << <<"m", "a", "r", "k">>,
           <<"m", "a", "r", "k", "e", "r">>,
           <<"y", "e", "l", "l", "o", "w">> >>,
        "formatting", "toggleHighlight")

cmdLink ==
    Command(
        <<"L", "i", "n", "k">>,
        <<"A", "d", "d", " ", "a", " ", "l", "i", "n", "k", " ", "t", "o", " ",
          "t", "e", "x", "t">>,
        << <<"u", "r", "l">>,
           <<"h", "r", "e", "f">>,
           <<"a", "n", "c", "h", "o", "r">> >>,
        "formatting", "openLinkPopover")

cmdQuote ==
    Command(
        <<"Q", "u", "o", "t", "e">>,
        <<"C", "a", "p", "t", "u", "r", "e", " ", "a", " ", "q", "u", "o", "t",
          "e">>,
        << <<"b", "l", "o", "c", "k", "q", "u", "o", "t", "e">>,
           <<"q", "u", "o", "t", "a", "t", "i", "o", "n">> >>,
        "advanced", "toggleBlockquote")

cmdCodeBlock ==
    Command(
        <<"C", "o", "d", "e", " ", "B", "l", "o", "c", "k">>,
        <<"D", "i", "s", "p", "l", "a", "y", " ", "c", "o", "d", "e", " ", "w",
          "i", "t", "h", " ", "s", "y", "n", "t", "a", "x", " ", "h", "i", "g",
          "h", "l", "i", "g", "h", "t", "i", "n", "g">>,
        << <<"c", "o", "d", "e", "b", "l", "o", "c", "k">>,
           <<"p", "r", "e">>,
           <<"s", "y", "n", "t", "a", "x">> >>,
        "advanced", "toggleCodeBlock")

cmdDivider ==
    Command(
        <<"D", "i", "v", "i", "d", "e", "r">>,
        <<"V", "i", "s", "u", "a", "l", "l", "y", " ", "d", "i", "v", "i", "d",
          "e", " ", "b", "l", "o", "c", "k", "s">>,
        << <<"h", "r">>,
           <<"h", "o", "r", "i", "z", "o", "n", "t", "a", "l">>,
           <<"r", "u", "l", "e">>,
           <<"s", "e", "p", "a", "r", "a", "t", "o", "r">> >>,
        "advanced", "setHorizontalRule")

\* defaultSlashCommands
defaultSlashCommands ==
    <<cmdText, cmdHeading1, cmdHeading2, cmdHeading3, cmdBulletList,
      cmdNumberedList, cmdTaskList, cmdInlineCode, cmdHighlight, cmdLink,
      cmdQuote, cmdCodeBlock, cmdDivider>>

\* the slash commands of createFileUploadPlugin
cmdFile ==
    Command(
        <<"F", "i", "l", "e">>,
        <<"I", "n", "l", "i", "n", "e", " ", "f", "i", "l", "e", " ", "a", "t",
          "t", "a", "c", "h", "m", "e", "n", "t">>,
        << <<"f", "i", "l", "e">>,
           <<"u", "p", "l", "o", "a", "d">>,
           <<"a", "t", "t", "a", "c", "h", "m", "e", "n", "t">>,
           <<"a", "t", "t", "a", "c", "h">>,
           <<"i", "n", "l", "i", "n", "e">> >>,
        "media", "triggerInlineUpload")

cmdFileCard ==
    Command(
        <<"F", "i", "l", "e", " ", "C", "a", "r", "d">>,
        <<"F", "i", "l", "e", " ", "a", "t", "t", "a", "c", "h", "m", "e", "n",
          "t", " ", "a", "s", " ", "c", "a", "r", "d", "/", "b", "l", "o", "c",
          "k">>,
        << <<"f", "i", "l", "e", "c", "a", "r", "d">>,
           <<"f", "i", "l", "e", "b", "l", "o", "c", "k">>,
           <<"c", "a", "r", "d">>,
           <<"b", "l", "o", "c", "k">> >>,
        "media", "triggerBlockUpload")

\* commandGroups, in the order of the array
commandGroups ==
    << [id |-> "basic", priority |-> 1],
       [id |-> "lists", priority |-> 2],
       [id |-> "formatting", priority |-> 3],
       [id |-> "advanced", priority |-> 4],
       [id |-> "media", priority |-> 5],
       [id |-> "custom", priority |-> 6] >>

\* whether the command matches the lower-cased query by name, description or alias
CommandMatches(command, lowerQuery) ==
    LET nameMatch == Includes(ToLower(command.name), lowerQuery)
        descriptionMatch == Includes(ToLower(command.description), lowerQuery)
        aliasMatch == \E i \in 1..Len(command.aliases) :
                          Includes(ToLower(command.aliases[i]), lowerQuery)
    IN nameMatch \/ descriptionMatch \/ aliasMatch

\* a filter that looks at names and aliases only
filterCommandsNameOrAlias(commands, query) ==
    SelectSeq(commands,
              LAMBDA command :
                  \/ Includes(ToLower(command.name), ToLower(query))
                  \/ \E i \in 1..Len(command.aliases) :
                        Includes(ToLower(command.aliases[i]), ToLower(query)))

\* filterCommands
filterCommands(commands, query) ==
    IF Len(query) = 0 THEN commands
    ELSE SelectSeq(commands, LAMBDA command : CommandMatches(command, ToLower(query)))

RECURSIVE InsertByPriority(_, _)
\* group g put into the sorted list before the first group of higher priority
InsertByPriority(sorted, g) ==
    IF sorted = <<>> THEN <<g>>
    ELSE IF g.priority < sorted[1].priority THEN <<g>> \o sorted
    ELSE <<sorted[1]>> \o InsertByPriority(Tail(sorted), g)

RECURSIVE SortByPriority(_)
\* [...groups].sort((a, b) => a.priority - b.priority), a stable sort
SortByPriority(groups) ==
    IF groups = <<>> THEN <<>>
    ELSE InsertByPriority(SortByPriority(SubSeq(groups, 1, Len(groups) - 1)),
                          groups[Len(groups)])

RECURSIVE GroupEntries(_, _)
\* the loop of groupCommands over the sorted groups: the entries of the Map
GroupEntries(sortedGroups, commands) ==
    IF sortedGroups = <<>> THEN <<>>
    ELSE LET group == sortedGroups[1]
             members == SelectSeq(commands, LAMBDA cmd : cmd.group = group.id)
         IN (IF Len(members) > 0
             THEN <<[group |-> group, commands |-> members]>>
             ELSE <<>>)
            \o GroupEntries(Tail(sortedGroups), commands)

\* a grouping that keeps an entry for every group, empty or not
groupCommandsKeepEmpty(commands) ==
    [i \in 1..Len(commandGroups) |->
        [group |-> SortByPriority(commandGroups)[i],
         commands |-> SelectSeq(commands,
                                LAMBDA cmd : cmd.group = SortByPriority(commandGroups)[i].id)]]

\* groupCommands: the entries of the returned Map, in insertion order
groupCommands(commands) == GroupEntries(SortByPriority(commandGroups), commands)

RECURSIVE Flat(_)
\* Array.from(groupedItems.values()).flat()
Flat(entries) ==
    IF entries = <<>> THEN <<>>
    ELSE entries[1].commands \o Flat(Tail(entries))

-----------------------------------------------------------------------------
(* The RichTextEditor shell: plugins, merged commands, lifecycle hooks *)

\* an EditorPlugin: slashCommands (<<>> when left out), and what its onInit
\* and onDestroy do: "absent", "returns" or "throws"
Plugin(name, slashCommands, onInit, onDestroy) ==
    [name |-> name, slashCommands |-> slashCommands,
     onInit |-> onInit, onDestroy |-> onDestroy]

\* createFileUploadPlugin(...)
pluginFileUpload == Plugin("file-upload", <<cmdFile, cmdFileCard>>, "returns", "returns")

\* two host plugins that each define a command named X
cmdXOne == Command(<<"X">>, <<"o", "n", "e">>, <<>>, "custom", "actionOne")
cmdXTwo == Command(<<"X">>, <<"t", "w", "o">>, << <<"h", "1">> >>, "basic", "actionTwo")
pluginOne == Plugin("one", <<cmdXOne>>, "absent", "returns")
pluginTwo == Plugin("two", <<cmdXTwo>>, "throws", "returns")

\* a host plugin with hooks only
pluginHooks == Plugin("hooks", <<>>, "returns", "absent")

\* a plugin whose onDestroy throws
pluginCleanup == Plugin("cleanup", <<>>, "returns", "throws")

PluginPool == {pluginFileUpload, pluginOne, pluginTwo, pluginHooks, pluginCleanup}

\* the values of the plugins prop: up to MaxPlugins plugins, in any order
PluginLists ==
    UNION {[1..n -> PluginPool] : n \in 0..MaxPlugins}

RECURSIVE FlatMapCommands(_)
\* plugins.flatMap((p) => p.slashCommands ?? [])
FlatMapCommands(plugins) ==
    IF plugins = <<>> THEN <<>>
    ELSE plugins[1].slashCommands \o FlatMapCommands(Tail(plugins))

\* a merged list with the plugins' commands in front
allSlashCommandsPluginsFirst(plugins) == FlatMapCommands(plugins) \o defaultSlashCommands

\* allSlashCommands
allSlashCommands(plugins) == defaultSlashCommands \o FlatMapCommands(plugins)

HookCall(hook, i, plugin) == [hook |-> hook, index |-> i, plugin |-> plugin.name]

RECURSIVE InitCallsCaught(_, _)
\* a forEach that catches what an onInit throws and goes on
InitCallsCaught(plugins, i) ==
    IF i > Len(plugins) THEN <<>>
    ELSE IF plugins[i].onInit = "absent" THEN InitCallsCaught(plugins, i + 1)
    ELSE <<HookCall("onInit", i, plugins[i])>> \o InitCallsCaught(plugins, i + 1)

RECURSIVE InitCalls(_, _)
\* plugins.forEach((plugin) => plugin.onInit?.(editor)) from plugin i on: the
\* calls made; a call that throws ends the forEach
InitCalls(plugins, i) ==
    IF i > Len(plugins) THEN <<>>
    ELSE IF plugins[i].onInit = "absent" THEN InitCalls(plugins, i + 1)
    ELSE IF plugins[i].onInit = "throws" THEN <<HookCall("onInit", i, plugins[i])>>
    ELSE <<HookCall("onInit", i, plugins[i])>> \o InitCalls(plugins, i + 1)

RECURSIVE DestroyCallsReversed(_, _)
\* a teardown that goes through the plugins last to first
DestroyCallsReversed(plugins, i) ==
    IF i > Len(plugins) THEN <<>>
    ELSE IF plugins[i].onDestroy = "absent" THEN DestroyCallsReversed(plugins, i + 1)
    ELSE DestroyCallsReversed(plugins, i + 1) \o <<HookCall("onDestroy", i, plugins[i])>>

RECURSIVE DestroyCalls(_, _)
\* plugins.forEach((plugin) => plugin.onDestroy?.()) from plugin i on: the
\* calls made; a call that throws ends the forEach
DestroyCalls(plugins, i) ==
    IF i > Len(plugins) THEN <<>>
    ELSE IF plugins[i].onDestroy = "absent" THEN DestroyCalls(plugins, i + 1)
    ELSE IF plugins[i].onDestroy = "throws" THEN <<HookCall("onDestroy", i, plugins[i])>>
    ELSE <<HookCall("onDestroy", i, plugins[i])>> \o DestroyCalls(plugins, i + 1)

\* the exceptions that leave onDestroy: the onDestroy that threw, if one did
DestroyThrown(plugins) ==
    LET calls == DestroyCalls(plugins, 1)
    IN IF calls # <<>> /\ plugins[calls[Len(calls)].index].onDestroy = "throws"
       THEN <<calls[Len(calls)]>>
       ELSE <<>>

\* the exceptions that leave onCreate: the onInit that threw, if one did
InitThrown(plugins) ==
    LET calls == InitCalls(plugins, 1)
    IN IF calls # <<>> /\ plugins[calls[Len(calls)].index].onInit = "throws"
       THEN <<calls[Len(calls)]>>
       ELSE <<>>

\* the plugins props of the slash sessions: none, the file-upload plugin,
\* two plugins with a command of the same name
SlashPluginLists == {<<>>, <<pluginFileUpload>>, <<pluginOne, pluginTwo>>}

\* the shell of a new editor with the given plugins prop
NewShell(plugins, created) ==
    [plugins |-> plugins, created |-> created, hooks |-> <<>>, thrown |-> <<>>]

\* the editor's create event: onCreate
onCreate ==
    /\ ~destroyed
    /\ ~shell.created
    /\ shell' = [shell EXCEPT !.created = TRUE,
                              !.hooks = @ \o InitCalls(shell.plugins, 1),
                              !.thrown = @ \o InitThrown(shell.plugins)]
    /\ UNCHANGED <<uploadVars, mention, clock, searches, slash, calc, instances>>

-----------------------------------------------------------------------------
(* The slash-command session *)

\* the words a slash query is typed along
SlashWords ==
    { <<"h", "e", "a", "d">>, <<"l", "a">>, <<"x">>, <<"z", "z">> }

\* the queries that can stand after the slash
SlashQueries ==
    UNION {{SubSeq(w, 1, n) : n \in 0..Len(w)} : w \in SlashWords}

\* suggestion.items of the shell: the merged commands by name or alias
suggestionItems(query) ==
    SelectSeq(allSlashCommands(shell.plugins),
              LAMBDA item :
                  LET nameMatch == Includes(ToLower(item.name), ToLower(query))
                      aliasMatch == \E a \in 1..Len(item.aliases) :
                                       Includes(ToLower(item.aliases[a]), ToLower(query))
                  IN nameMatch \/ aliasMatch)

\* no slash session: no component, no popup
SlashClosed(sessions, ran) ==
    [active |-> FALSE, popup |-> "none", query |-> <<>>, items |-> <<>>,
     menuQuery |-> <<>>, selectedIndex |-> 0, sessions |-> sessions, ran |-> ran]

\* CommandMenu's flatItems: the commands it renders, in rendering order
flatItems == Flat(groupCommands(filterCommands(slash.items, slash.menuQuery)))

\* render().onStart after items(query) for the slash just typed
SlashStart ==
    /\ ~destroyed
    /\ ~slash.active
    /\ slash.sessions < MaxSessions
    /\ slash' = [active |-> TRUE, popup |-> "shown", query |-> <<>>,
                 items |-> suggestionItems(<<>>), menuQuery |-> <<>>,
                 selectedIndex |-> 0, sessions |-> slash.sessions + 1,
                 ran |-> slash.ran]
    /\ UNCHANGED <<uploadVars, mention, clock, searches, shell, calc, instances>>

\* render().onUpdate after items(query) for a changed query; CommandMenu
\* resets its selection when its query prop changes
SlashUpdate(query) ==
    /\ ~destroyed
    /\ slash.active
    /\ query \in SlashQueries
    /\ \/ /\ Len(query) = Len(slash.query) + 1
          /\ SubSeq(query, 1, Len(slash.query)) = slash.query
       \/ /\ Len(slash.query) = Len(query) + 1
          /\ SubSeq(slash.query, 1, Len(query)) = query
    /\ slash' = [slash EXCEPT !.query = query,
                              !.items = suggestionItems(query),
                              !.menuQuery = query,
                              !.selectedIndex = 0]
    /\ UNCHANGED <<uploadVars, mention, clock, searches, shell, calc, instances>>

\* render().onExit: the suggestion session has ended
SlashExit ==
    /\ slash.active
    /\ slash' = SlashClosed(slash.sessions, slash.ran)
    /\ UNCHANGED <<uploadVars, mention, clock, searches, shell, calc, instances>>

RECURSIVE RenderGroups(_, _)
\* CommandMenu's render over groupedItems.entries(): one button per command,
\* numbered by globalIndex++, with the selected class where the number is
\* selectedIndex
RenderGroups(entries, globalIndex) ==
    IF entries = <<>> THEN <<>>
    ELSE LET commands == entries[1].commands IN
         [i \in 1..Len(commands) |->
             [command |-> commands[i],
              index |-> globalIndex + i - 1,
              selected |-> (globalIndex + i - 1 = slash.selectedIndex)]]
         \o RenderGroups(Tail(entries), globalIndex + Len(commands))

\* the buttons of the shown menu, in the order they are displayed
CommandButtons ==
    RenderGroups(groupCommands(filterCommands(slash.items, slash.menuQuery)), 0)

\* onMouseEnter of one of the buttons
SlashHover ==
    /\ ~destroyed
    /\ slash.active
    /\ slash.popup = "shown"
    /\ LET buttons == CommandButtons IN
       \E b \in 1..Len(buttons) :
           slash' = [slash EXCEPT !.selectedIndex = buttons[b].index]
    /\ UNCHANGED <<uploadVars, mention, clock, searches, shell, calc, instances>>

\* a selection that turns round at the ends of the list
SlashArrowBounce(key) ==
    /\ ~destroyed
    /\ slash.active
    /\ slash' = [slash EXCEPT !.selectedIndex =
                    IF key = "ArrowUp"
                    THEN (IF @ <= 0 THEN (IF Len(flatItems) > 1 THEN 1 ELSE 0)
                          ELSE @ - 1)
                    ELSE (IF @ >= Len(flatItems) - 1
                          THEN (IF Len(flatItems) > 1 THEN Len(flatItems) - 2 ELSE 0)
                          ELSE @ + 1)]
    /\ UNCHANGED <<uploadVars, mention, clock, searches, shell, calc, instances>>

\* render().onKeyDown with ArrowUp / ArrowDown: CommandMenu moves its selection
SlashArrow(key) ==
    /\ ~destroyed
    /\ slash.active
    /\ slash' = [slash EXCEPT !.selectedIndex =
                    IF key = "ArrowUp"
                    THEN (IF @ <= 0 THEN Len(flatItems) - 1 ELSE @ - 1)
                    ELSE (IF @ >= Len(flatItems) - 1 THEN 0 ELSE @ + 1)]
    /\ UNCHANGED <<uploadVars, mention, clock, searches, shell, calc, instances>>

\* render().onKeyDown with Enter: CommandMenu selects flatItems[selectedIndex];
\* onSelect deletes the tracked range, runs the command's action and hides
\* the popup, and with the slash deleted the session ends (onExit)
SlashEnter ==
    /\ ~destroyed
    /\ slash.active
    /\ LET index == slash.selectedIndex + 1
       IN IF index \in 1..Len(flatItems)
          THEN slash' = SlashClosed(slash.sessions,
                                    Append(slash.ran, flatItems[index].action))
          ELSE slash' = slash
    /\ UNCHANGED <<uploadVars, mention, clock, searches, shell, calc, instances>>

\* render().onKeyDown with Escape: the popup is hidden and the key reported
\* as handled; whether the suggestion plugin ends the session on Escape
\* (exits) is the plugin's decision
SlashEscape(exits) ==
    /\ ~destroyed
    /\ slash.active
    /\ slash' = IF exits THEN SlashClosed(slash.sessions, slash.ran)
                ELSE [slash EXCEPT !.popup = "hidden"]
    /\ UNCHANGED <<uploadVars, mention, clock, searches, shell, calc, instances>>

-----------------------------------------------------------------------------
(* The upload lifecycle *)

Event(name, file, arg) == [name |-> name, file |-> file, arg |-> arg]

\* new Error(...) of the two validation failures
ValidationError(verdict) ==
    [isError |-> TRUE,
     message |-> IF verdict = "size" THEN "exceeds the maximum size"
                 ELSE "is not accepted"]

\* err instanceof Error ? err : new Error('Upload failed')
NormalizeError(err) ==
    IF err.isError THEN err ELSE [isError |-> TRUE, message |-> "Upload failed"]

\* no continuation of a batch loop is waiting to run: only then does the event
\* loop take the next user or host event
Idle == \A b \in 1..Len(batches) : batches[b].pc # "loop"

\* the display mode an entry point asks uploadFile for
requestedDisplayMode(entry, file) ==
    CASE entry = "pickInline" -> "inline"
      [] entry = "pickBlock" -> "block"
      [] OTHER -> getDisplayModeForType(file.type, defaultDisplayMode)

\* a batch loop that calls uploadFile without awaiting it
SuspendLoopNoAwait(batch, t) == [batch EXCEPT !.idx = @ + 1]

\* the batch loop once uploadFile has called options.onUpload for task t:
\* `await uploadFile(...)` suspends it until that task has settled
SuspendLoop(batch, t) == [batch EXCEPT !.pc = "await", !.task = t]

\* the batch loop once an uploadFile call has returned
AdvanceLoop(batch) == [batch EXCEPT !.pc = "loop", !.idx = @ + 1, !.task = 0]

\* an id made of Date.now() alone
generateUploadIdTimeOnly(now) == FormatUploadId(now, 0)

\* generateUploadId
generateUploadId(now) == FormatUploadId(now, uploadIdCounter + 1)

\* the events of uploadFile for an accepted file, up to its await
AcceptEvents(file) ==
    << Event("insert", file, Null),
       Event("onUploadStart", file, Null),
       Event("onUpload", file, Null) >>

\* handlePaste's hasFiles: some file of the clipboard has a type
hasFiles(files) == \E i \in 1..Len(files) : Len(files[i].type) > 0

\* a handler that has returned: its files and its closure are gone
Returned == [entry |-> "none", files |-> <<>>, idx |-> 0, task |-> 0, pc |-> "done"]

\* a drop, a paste or a file-picker selection arrives with its files; a paste
\* none of whose files has a type is left to the editor's own paste handling
StartBatch(entry, files, limit) ==
    /\ ~destroyed
    /\ entry = "paste" => hasFiles(files)
    /\ Idle
    /\ Len(batches) < limit
    /\ Len(tasks) + Len(files) <= MaxTasks
    /\ batches' = Append(batches,
            [entry |-> entry, files |-> files, idx |-> 1, task |-> 0,
             pc |-> "loop"])
    /\ UNCHANGED <<doc, sel, undoStack, redoStack, destroyed, uploadIdCounter, tasks, userSteps, mention, clock, searches, shell, slash, calc, instances>>

\* handlePaste's `if (!file.type) continue`
Skipped(entry, file) == entry = "paste" /\ Len(file.type) = 0

\* the paste loop passes over a file without a type
SkipFile(b) ==
    /\ batches[b].pc = "loop"
    /\ batches[b].idx <= Len(batches[b].files)
    /\ Skipped(batches[b].entry, batches[b].files[batches[b].idx])
    /\ batches' = [batches EXCEPT ![b].idx = @ + 1]
    /\ UNCHANGED <<doc, sel, undoStack, redoStack, destroyed, uploadIdCounter, tasks, userSteps, mention, clock, searches, shell, slash, calc, instances>>

\* the batch loop is past its last file: the handler returns
FinishBatch(b) ==
    /\ batches[b].pc = "loop"
    /\ batches[b].idx > Len(batches[b].files)
    /\ batches' = [batches EXCEPT ![b] = Returned]
    /\ UNCHANGED <<doc, sel, undoStack, redoStack, destroyed, uploadIdCounter, tasks, userSteps, mention, clock, searches, shell, slash, calc, instances>>

\* uploadFile for a file that fails a check: onUploadError, then return
RejectFile(b) ==
    /\ batches[b].pc = "loop"
    /\ batches[b].idx <= Len(batches[b].files)
    /\ LET file == batches[b].files[batches[b].idx]
           verdict == Validate(file)
       IN /\ ~Skipped(batches[b].entry, file)
          /\ verdict # "accepted"
          /\ tasks' = Append(tasks,
                [batch |-> b, k |-> batches[b].idx, file |-> file,
                 verdict |-> verdict, uploadId |-> Null, displayMode |-> "none",
                 at |-> 0, settled |-> Null,
                 status |-> "rejected", outcome |-> "none",
                 events |-> <<Event("onUploadError", file, ValidationError(verdict))>>])
          /\ batches' = [batches EXCEPT ![b] = AdvanceLoop(@)]
    /\ UNCHANGED <<doc, sel, undoStack, redoStack, destroyed, uploadIdCounter, userSteps,
                   mention, clock, searches, shell, slash, calc, instances>>

\* uploadFile for a file that passes: placeholder, onUploadStart, onUpload.
\* On a destroyed editor the insert command is still issued; whether the
\* editor applies it is the framework's choice (applied).
AcceptFile(b, now, applied) ==
    /\ batches[b].pc = "loop"
    /\ batches[b].idx <= Len(batches[b].files)
    /\ LET file == batches[b].files[batches[b].idx]
           displayMode == getDisplayModeForType(file.type,
                               requestedDisplayMode(batches[b].entry, file))
           uploadId == generateUploadId(now)
           node == PlaceholderNode(file, uploadId, displayMode)
           after == IF displayMode = "block"
                    THEN setFileAttachmentBlock(doc, sel, node)
                    ELSE setFileAttachment(doc, sel, node)
       IN /\ ~Skipped(batches[b].entry, file)
          /\ Validate(file) = "accepted"
          /\ uploadIdCounter' = uploadIdCounter + 1
          /\ IF destroyed /\ ~applied
             THEN UNCHANGED <<doc, sel, undoStack, redoStack>>
             ELSE Dispatch(after.doc, after.sel)
          /\ tasks' = Append(tasks,
                [batch |-> b, k |-> batches[b].idx, file |-> file,
                 verdict |-> "accepted", uploadId |-> uploadId,
                 displayMode |-> displayMode,
                 at |-> IF destroyed /\ ~applied THEN 0 ELSE after.sel.from,
                 settled |-> Null,
                 status |-> "inflight", outcome |-> "none",
                 events |-> AcceptEvents(file)])
          /\ batches' = [batches EXCEPT ![b] = SuspendLoop(@, Len(tasks) + 1)]
    /\ UNCHANGED <<destroyed, userSteps, mention, clock, searches, shell, slash, calc, instances>>

\* an uploadFile call whose return does not resume its batch loop
ResumeLoopNever(t) == batches

\* the uploadFile call of task t returns: its batch loop resumes
ResumeLoop(t) ==
    [b \in 1..Len(batches) |->
        IF batches[b].pc = "await" /\ batches[b].task = t
        THEN AdvanceLoop(batches[b])
        ELSE batches[b]]

\* options.onUpload resolves with url, and uploadFile continues after its await
UploadResolves(t, url) ==
    /\ tasks[t].status = "inflight"
    /\ LET file == tasks[t].file
           found == MatchingNodes(doc, tasks[t].uploadId) # {}
           value == [kind |-> "resolved", value |-> url]
       IN IF destroyed
          THEN /\ tasks' = [tasks EXCEPT ![t].status = "done",
                                         ![t].settled = value,
                                         ![t].outcome = "dropped"]
               /\ UNCHANGED <<doc, sel, undoStack, redoStack>>
          ELSE /\ tasks' = [tasks EXCEPT
                    ![t].status = "done",
                    ![t].settled = value,
                    ![t].outcome = IF found THEN "promoted" ELSE "missing",
                    ![t].events = @ \o << Event("completeFileUpload", file, url),
                                          Event("onUploadComplete", file, url) >>]
               /\ IF found
                  THEN Dispatch(completeFileUpload(doc, tasks[t].uploadId, url), sel)
                  ELSE UNCHANGED <<doc, sel, undoStack, redoStack>>
    /\ batches' = ResumeLoop(t)
    /\ UNCHANGED <<destroyed, uploadIdCounter, userSteps, mention, clock, searches, shell, slash, calc, instances>>

\* options.onUpload rejects with err, and uploadFile continues in its catch
UploadRejects(t, err) ==
    /\ tasks[t].status = "inflight"
    /\ LET file == tasks[t].file
           ks == MatchingNodes(doc, tasks[t].uploadId)
           report == Event("onUploadError", file, NormalizeError(err))
           value == [kind |-> "rejected", value |-> err]
       IN IF destroyed
          THEN /\ tasks' = [tasks EXCEPT ![t].status = "done",
                                         ![t].settled = value,
                                         ![t].outcome = "dropped",
                                         ![t].events = Append(@, report)]
               /\ UNCHANGED <<doc, sel, undoStack, redoStack>>
          ELSE /\ tasks' = [tasks EXCEPT
                    ![t].status = "done",
                    ![t].settled = value,
                    ![t].outcome = IF ks # {} THEN "removed" ELSE "absent",
                    ![t].events = @ \o << report, Event("failFileUpload", file, Null) >>]
               /\ IF ks # {}
                  THEN Dispatch(failFileUpload(doc, tasks[t].uploadId), MapSel(sel, ks))
                  ELSE UNCHANGED <<doc, sel, undoStack, redoStack>>
    /\ batches' = ResumeLoop(t)
    /\ UNCHANGED <<destroyed, uploadIdCounter, userSteps, mention, clock, searches, shell, slash, calc, instances>>

\* the editor is torn down (the component unmounts): onDestroy
Destroy ==
    /\ ~destroyed
    /\ Idle
    /\ destroyed' = TRUE
    /\ shell' = [shell EXCEPT !.hooks = @ \o DestroyCalls(shell.plugins, 1),
                              !.thrown = @ \o DestroyThrown(shell.plugins)]
    /\ UNCHANGED <<doc, sel, undoStack, redoStack, uploadIdCounter, batches, tasks, userSteps, mention, clock, searches, slash, calc, instances>>

-----------------------------------------------------------------------------
(* The mention session of MentionSuggestion *)

\* addOptions: debounceMs, minQueryLength, maxSuggestions
debounceMs == 150
minQueryLength == 0
maxSuggestions == 2

QueryChars == {"a", "b"}

\* a text node of one character
Char(c) == [type |-> "text", text |-> c]

\* MentionItem
MentionItem(id, label, avatar, metadata) ==
    [id |-> id, label |-> label, avatar |-> avatar, metadata |-> metadata]

itemAl == MentionItem(<<"1">>, <<"A", "l">>, <<"a", ".", "p">>, Null)
itemBo == MentionItem(<<"2">>, <<"B", "o">>, Null, <<"m">>)
itemCy == MentionItem(<<"3">>, <<"C", "y">>, Null, Null)

\* what options.onSearch resolves with
SearchResults == { <<>>, <<itemAl>>, <<itemBo, itemAl, itemCy>> }

\* the mention node setMention inserts
MentionNode(attributes) ==
    [type |-> "mention",
     id |-> attributes.id,
     label |-> attributes.label,
     avatar |-> attributes.avatar,
     metadata |-> attributes.metadata]

\* a command that puts a space behind every mention
mentionCommandAlwaysSpace(d, s, range, props) ==
    [doc |-> Replace(d, range.from, range.to, <<MentionNode(props), Char(" ")>>),
     sel |-> [from |-> range.from + 2, to |-> range.from + 2]]

\* suggestion.command: addSpace from the node behind the selection, then the
\* chain deleteRange(range), setMention, insertText(' ') when addSpace
mentionCommand(d, s, range, props) ==
    LET nodeAfter == d[s.to + 1]
        addSpace == ~(nodeAfter.type = "text" /\ nodeAfter.text = " ")
        inserted == IF addSpace THEN <<MentionNode(props), Char(" ")>>
                    ELSE <<MentionNode(props)>>
    IN [doc |-> Replace(d, range.from, range.to, inserted),
        sel |-> [from |-> range.from + Len(inserted),
                 to |-> range.from + Len(inserted)]]

\* no mention session: no component, no popup (menuQuery is the query the
\* items handed to the MentionList were searched for)
MentionClosed(selects) ==
    [active |-> FALSE, query |-> <<>>, changedAt |-> 0,
     range |-> [from |-> 0, to |-> 0], search |-> 0, popup |-> "none",
     items |-> <<>>, menuQuery |-> <<>>, selectedIndex |-> 0, selects |-> selects]

\* `items`: whether the query reaches options.onSearch
items(query) == ~(Len(query) < minQueryLength)

\* the user's keystroke changes the document to newDoc; the suggestion
\* plugin sees the query change to query over the range from..cursor and
\* calls `items`, which calls options.onSearch at once
QueryChanges(query, newDoc, from, cursor) ==
    /\ Dispatch(newDoc, [from |-> cursor, to |-> cursor])
    /\ mention' = [mention EXCEPT !.active = TRUE,
                                  !.query = query,
                                  !.changedAt = clock,
                                  !.range = [from |-> from, to |-> cursor],
                                  !.search = IF items(query) THEN Len(searches) + 1
                                             ELSE 0]
    /\ IF items(query)
       THEN searches' = Append(searches,
                [query |-> query, changedAt |-> clock, calledAt |-> clock,
                 status |-> "pending", items |-> "pending"])
       ELSE UNCHANGED searches
    /\ UNCHANGED clock
    /\ UNCHANGED <<destroyed, uploadIdCounter, batches, tasks, userSteps, shellVars>>

\* the user types the trigger character
MentionStart ==
    /\ ~destroyed
    /\ ~mention.active
    /\ Len(searches) < MaxSearches
    /\ sel.from = sel.to
    /\ QueryChanges(<<>>, Replace(doc, sel.from, sel.to, <<Char("@")>>),
                    sel.from, sel.from + 1)

\* the user types a character of the query
MentionType(c) ==
    /\ ~destroyed
    /\ mention.active
    /\ Len(mention.query) < MaxQuery
    /\ Len(searches) < MaxSearches
    /\ QueryChanges(Append(mention.query, c),
                    Replace(doc, sel.from, sel.to, <<Char(c)>>),
                    mention.range.from, sel.from + 1)

\* Backspace in the query; on an empty query it deletes the trigger and the
\* session ends (render().onExit)
MentionBackspace ==
    /\ ~destroyed
    /\ mention.active
    /\ IF Len(mention.query) > 0
       THEN /\ Len(searches) < MaxSearches
            /\ QueryChanges(SubSeq(mention.query, 1, Len(mention.query) - 1),
                            Remove(doc, sel.from),
                            mention.range.from, sel.from - 1)
       ELSE /\ Dispatch(Remove(doc, sel.from),
                        [from |-> sel.from - 1, to |-> sel.from - 1])
            /\ mention' = MentionClosed(mention.selects)
            /\ UNCHANGED <<clock, searches>>
            /\ UNCHANGED <<destroyed, uploadIdCounter, batches, tasks, userSteps, shellVars>>

\* the promise of the i-th onSearch call resolves: `items` resolves with the
\* first maxSuggestions results, and for the session's current search
\* render().onStart / onUpdate hands them to the MentionList
SearchResolves(i, results) ==
    /\ searches[i].status = "pending"
    /\ searches' = [searches EXCEPT ![i].status = "resolved", ![i].items = "resolved"]
    /\ IF mention.active /\ mention.search = i
       THEN mention' = [mention EXCEPT
                !.popup = IF @ = "none" THEN "shown" ELSE @,
                !.menuQuery = searches[i].query,
                !.items = SubSeq(results, 1,
                                 IF Len(results) < maxSuggestions THEN Len(results)
                                 ELSE maxSuggestions)]
       ELSE UNCHANGED mention
    /\ UNCHANGED clock
    /\ UNCHANGED <<uploadVars, shellVars>>

\* the promise of the i-th onSearch call rejects: the await in `items` throws,
\* nothing catches it, and the promise `items` returned rejects; no render
\* callback runs for it
SearchRejects(i) ==
    /\ searches[i].status = "pending"
    /\ searches' = [searches EXCEPT ![i].status = "rejected", ![i].items = "rejected"]
    /\ UNCHANGED <<mention, clock>>
    /\ UNCHANGED <<uploadVars, shellVars>>

\* render().onKeyDown with ArrowUp / ArrowDown: MentionList moves its selection
MentionArrow(key) ==
    /\ ~destroyed
    /\ mention.active
    /\ mention.popup # "none"
    /\ mention' = [mention EXCEPT !.selectedIndex =
                      IF key = "ArrowUp"
                      THEN (IF @ <= 0 THEN Len(mention.items) - 1 ELSE @ - 1)
                      ELSE (IF @ >= Len(mention.items) - 1 THEN 0 ELSE @ + 1)]
    /\ UNCHANGED <<clock, searches>>
    /\ UNCHANGED <<uploadVars, shellVars>>

\* MentionList's render: one button per item, with the is-selected class on
\* the item at safeIndex = min(max(0, selectedIndex), items.length - 1)
MentionButtons ==
    LET last == Len(mention.items) - 1
        low == IF mention.selectedIndex < 0 THEN 0 ELSE mention.selectedIndex
        safeIndex == IF low < last THEN low ELSE last
    IN [k \in 1..Len(mention.items) |->
           [item |-> mention.items[k], selected |-> (k - 1 = safeIndex)]]

\* onMouseEnter of the k-th button
MentionHover(k) ==
    /\ ~destroyed
    /\ mention.active
    /\ mention.popup = "shown"
    /\ k \in 1..Len(mention.items)
    /\ mention' = [mention EXCEPT !.selectedIndex = k - 1]
    /\ UNCHANGED <<clock, searches>>
    /\ UNCHANGED <<uploadVars, shellVars>>

\* props.command(item): suggestion.command over the tracked range, then
\* options.onMentionSelect; with the trigger deleted the session ends
MentionSelect(item) ==
    LET result == mentionCommand(doc, sel, mention.range, item)
    IN /\ Dispatch(result.doc, result.sel)
       /\ mention' = MentionClosed(Append(mention.selects, item))
       /\ UNCHANGED <<clock, searches>>
       /\ UNCHANGED <<destroyed, uploadIdCounter, batches, tasks, userSteps, shellVars>>

\* the Enter branch of MentionList's onKeyDown: the positions k with
\* items[safeIdx] the k-th item, safeIdx = min(selectedIndex, items.length - 1);
\* none when items[safeIdx] is undefined
EnterPositions ==
    LET last == Len(mention.items) - 1
        safeIdx == IF mention.selectedIndex < last THEN mention.selectedIndex
                   ELSE last
    IN {k \in 1..Len(mention.items) : k = safeIdx + 1}

\* render().onKeyDown with Enter: MentionList commits items[safeIdx]
MentionEnter ==
    /\ ~destroyed
    /\ mention.active
    /\ mention.popup # "none"
    /\ IF EnterPositions # {}
       THEN \E k \in EnterPositions : MentionSelect(mention.items[k])
       ELSE UNCHANGED vars

\* a click on the k-th item of the list
MentionClick(k) ==
    /\ ~destroyed
    /\ mention.active
    /\ mention.popup = "shown"
    /\ k \in 1..Len(mention.items)
    /\ MentionSelect(mention.items[k])

\* render().onKeyDown with Escape: the popup is hidden and the key reported
\* as handled; whether the suggestion plugin ends the session on Escape
\* (exits) is the plugin's decision
MentionEscape(exits) ==
    /\ ~destroyed
    /\ mention.active
    /\ mention.popup # "none"
    /\ mention' = IF exits THEN MentionClosed(mention.selects)
                  ELSE [mention EXCEPT !.popup = "hidden"]
    /\ UNCHANGED <<clock, searches>>
    /\ UNCHANGED <<uploadVars, shellVars>>

\* render().onExit: the suggestion session has ended
MentionExit ==
    /\ mention.active
    /\ mention' = MentionClosed(mention.selects)
    /\ UNCHANGED <<clock, searches>>
    /\ UNCHANGED <<uploadVars, shellVars>>

\* time passes
Tick ==
    /\ clock + TickMs <= MaxClock
    /\ clock' = clock + TickMs
    /\ UNCHANGED <<mention, searches>>
    /\ UNCHANGED <<uploadVars, shellVars>>

-----------------------------------------------------------------------------
(* The user at the keyboard *)

\* the editor is mounted and the event loop is free for a user event
UserCanAct ==
    /\ ~destroyed
    /\ Idle
    /\ userSteps < MaxUserSteps

TextCount == Cardinality({k \in 1..Len(doc) : doc[k].type = "text"})

\* the user moves the cursor or selects a range
Select(s) ==
    /\ UserCanAct
    /\ s \in Selections(doc)
    /\ s # sel
    /\ sel' = s
    /\ userSteps' = userSteps + 1
    /\ UNCHANGED <<doc, undoStack, redoStack, destroyed, uploadIdCounter, batches, tasks,
                   mention, clock, searches, shell, slash, calc, instances>>

\* the user types a character over the selection
TypeText ==
    /\ UserCanAct
    /\ TextCount < MaxText
    /\ Dispatch(Replace(doc, sel.from, sel.to, <<TextNode>>),
                [from |-> sel.from + 1, to |-> sel.from + 1])
    /\ userSteps' = userSteps + 1
    /\ UNCHANGED <<destroyed, uploadIdCounter, batches, tasks, mention, clock, searches, shell, slash, calc, instances>>

\* Backspace: deletes the selection, or the inline node before the cursor
DeleteBackward ==
    /\ UserCanAct
    /\ IF sel.from < sel.to
       THEN Dispatch(Replace(doc, sel.from, sel.to, <<>>),
                     [from |-> sel.from, to |-> sel.from])
       ELSE /\ sel.from >= 1
            /\ doc[sel.from].type \in {"text", "fileAttachment"}
            /\ Dispatch(Remove(doc, sel.from),
                        [from |-> sel.from - 1, to |-> sel.from - 1])
    /\ userSteps' = userSteps + 1
    /\ UNCHANGED <<destroyed, uploadIdCounter, batches, tasks, mention, clock, searches, shell, slash, calc, instances>>

\* the toolbar's Undo button (Cmd+Z)
Undo ==
    /\ UserCanAct
    /\ Len(undoStack) > 0
    /\ doc' = undoStack[Len(undoStack)].doc
    /\ sel' = undoStack[Len(undoStack)].sel
    /\ undoStack' = SubSeq(undoStack, 1, Len(undoStack) - 1)
    /\ redoStack' = Trim(Append(redoStack, Snapshot))
    /\ userSteps' = userSteps + 1
    /\ UNCHANGED <<destroyed, uploadIdCounter, batches, tasks, mention, clock, searches, shell, slash, calc, instances>>

\* the toolbar's Redo button (Cmd+Shift+Z)
Redo ==
    /\ UserCanAct
    /\ Len(redoStack) > 0
    /\ doc' = redoStack[Len(redoStack)].doc
    /\ sel' = redoStack[Len(redoStack)].sel
    /\ redoStack' = SubSeq(redoStack, 1, Len(redoStack) - 1)
    /\ undoStack' = Trim(Append(undoStack, Snapshot))
    /\ userSteps' = userSteps + 1
    /\ UNCHANGED <<destroyed, uploadIdCounter, batches, tasks, mention, clock, searches, shell, slash, calc, instances>>

-----------------------------------------------------------------------------
(* Editors mounted side by side and the plugin objects given to them *)

\* the closure of one createFileUploadPlugin call: each of the four closure
\* variables is null (0) or an object bound to the editor it was created for
createFileUploadPlugin ==
    [fileInputInline |-> 0, fileInputBlock |-> 0,
     cleanupDragAndDrop |-> 0, cleanupClipboardPaste |-> 0]

\* one RichTextEditor given plugin object p: its view's drop and paste
\* listeners, and the attachment nodes of its document (for each node the
\* editor the user offered the file to)
EditorInstance(p) ==
    [plugin |-> p, state |-> "new", drop |-> FALSE, paste |-> FALSE,
     doc |-> <<>>]

NoInstances == [plugins |-> <<>>, editors |-> <<>>, offered |-> 0]

Mounted(e) == instances.editors[e].state = "mounted"

\* the plugin's onInit(editor), called by the shell's onCreate: the four
\* closure variables are overwritten with objects bound to this editor
PluginOnInit(e) ==
    LET p == instances.editors[e].plugin IN
    /\ instances.editors[e].state = "new"
    /\ instances' = [instances EXCEPT
          !.plugins[p] = [fileInputInline |-> e, fileInputBlock |-> e,
                          cleanupDragAndDrop |-> e, cleanupClipboardPaste |-> e],
          !.editors[e] = [@ EXCEPT !.state = "mounted", !.drop = TRUE,
                                   !.paste = TRUE]]
    /\ UNCHANGED <<uploadVars, mention, clock, searches, shell, slash, calc>>

\* the plugin's onDestroy(), called when editor e unmounts: the inputs are
\* removed and nulled, the two cleanup functions the closure holds are
\* called (each removes the listeners of the editor it was made for)
PluginOnDestroy(e) ==
    LET p == instances.editors[e].plugin
        c == instances.plugins[p] IN
    /\ Mounted(e)
    /\ instances' = [instances EXCEPT
          !.plugins[p] = createFileUploadPlugin,
          !.editors = [x \in DOMAIN @ |->
              [@[x] EXCEPT
                 !.state = IF x = e THEN "destroyed" ELSE @,
                 !.drop = IF x = c.cleanupDragAndDrop THEN FALSE ELSE @,
                 !.paste = IF x = c.cleanupClipboardPaste THEN FALSE ELSE @]]]
    /\ UNCHANGED <<uploadVars, mention, clock, searches, shell, slash, calc>>

\* uploadFile(file, options, editor, mode) for a file the user offered to
\* editor `to` by picker, drop or paste: the placeholder goes into the
\* document of `editor`
InsertPlaceholder(inst, editor, to, via) ==
    [inst EXCEPT
       !.offered = @ + 1,
       !.editors[editor].doc =
           Append(@, [file |-> inst.offered + 1, offeredTo |-> to,
                      via |-> via, uploading |-> TRUE])]

\* triggerInlineUpload(editor) / triggerBlockUpload(editor), run by the File
\* / File Card command of editor e, then the input's onchange with one file:
\* the input is created for e only when the closure holds none
TriggerUpload(e, mode) ==
    LET p == instances.editors[e].plugin
        held == IF mode = "inline" THEN instances.plugins[p].fileInputInline
                ELSE instances.plugins[p].fileInputBlock
        input == IF held = 0 THEN e ELSE held
        created == IF mode = "inline"
                   THEN [instances EXCEPT !.plugins[p].fileInputInline = input]
                   ELSE [instances EXCEPT !.plugins[p].fileInputBlock = input] IN
    /\ Mounted(e)
    /\ instances.offered < MaxOffered
    /\ instances' = InsertPlaceholder(created, input, e, mode)
    /\ UNCHANGED <<uploadVars, mention, clock, searches, shell, slash, calc>>

\* handleDrop of the listener setupDragAndDrop attached to editor e's view
HandleDrop(e) ==
    /\ Mounted(e)
    /\ instances.editors[e].drop
    /\ instances.offered < MaxOffered
    /\ instances' = InsertPlaceholder(instances, e, e, "drop")
    /\ UNCHANGED <<uploadVars, mention, clock, searches, shell, slash, calc>>

\* handlePaste of the listener setupClipboardPaste attached to editor e's view
HandlePaste(e) ==
    /\ Mounted(e)
    /\ instances.editors[e].paste
    /\ instances.offered < MaxOffered
    /\ instances' = InsertPlaceholder(instances, e, e, "paste")
    /\ UNCHANGED <<uploadVars, mention, clock, searches, shell, slash, calc>>

\* the upload of the k-th attachment of editor e settles: uploadFile goes on
\* with the editor it was called with, completing the node or deleting it
UploadSettles(e, k, ok) ==
    LET d == instances.editors[e].doc IN
    /\ Mounted(e)
    /\ k \in 1..Len(d)
    /\ d[k].uploading
    /\ instances' = [instances EXCEPT !.editors[e].doc =
          IF ok THEN [d EXCEPT ![k].uploading = FALSE]
          ELSE SubSeq(d, 1, k - 1) \o SubSeq(d, k + 1, Len(d))]
    /\ UNCHANGED <<uploadVars, mention, clock, searches, shell, slash, calc>>

-----------------------------------------------------------------------------
(* The specification of the upload lifecycle *)

Entries == {"pickInline", "pickBlock", "drop", "paste"}

FileLists(files) == {<<f>> : f \in files} \cup {<<f, g>> : f \in files, g \in files}

Init ==
    /\ doc = <<POpen, PClose>>
    /\ sel = [from |-> 1, to |-> 1]
    /\ undoStack = <<>>
    /\ redoStack = <<>>
    /\ destroyed = FALSE
    /\ uploadIdCounter = 0
    /\ batches = <<>>
    /\ tasks = <<>>
    /\ userSteps = 0
    /\ mention = MentionClosed(<<>>)
    /\ clock = 0
    /\ searches = <<>>
    /\ shell = NewShell(<<>>, TRUE)
    /\ slash = SlashClosed(0, <<>>)
    /\ calc = [op |-> "none"]
    /\ instances = NoInstances

\* one editor whose user edits while the files of a batch upload
Next ==
    \/ \E e \in Entries, fs \in FileLists(EditedFiles) : StartBatch(e, fs, MaxBatches)
    \/ \E b \in 1..Len(batches) : FinishBatch(b)
    \/ \E b \in 1..Len(batches), now \in 0..MaxNow, applied \in BOOLEAN :
          AcceptFile(b, now, applied)
    \/ \E t \in 1..Len(tasks), url \in Urls : UploadResolves(t, url)
    \/ \E t \in 1..Len(tasks), err \in Rejections : UploadRejects(t, err)
    \/ Destroy
    \/ \E s \in Selections(doc) : Select(s)
    \/ TypeText
    \/ DeleteBackward
    \/ Undo
    \/ Redo

Spec == Init /\ [][Next]_vars

\* one editor given one batch of any files, through any entry point
NextFiles ==
    \/ \E e \in Entries, fs \in FileLists(Files) : StartBatch(e, fs, MaxBatches)
    \/ \E b \in 1..Len(batches) : SkipFile(b)
    \/ \E b \in 1..Len(batches) : RejectFile(b)
    \/ \E b \in 1..Len(batches) : FinishBatch(b)
    \/ \E b \in 1..Len(batches), now \in 0..MaxNow, applied \in BOOLEAN :
          AcceptFile(b, now, applied)
    \/ \E t \in 1..Len(tasks), url \in Urls : UploadResolves(t, url)
    \/ \E t \in 1..Len(tasks), err \in Rejections : UploadRejects(t, err)
    \/ Destroy

SpecFiles == Init /\ [][NextFiles]_vars

\* one editor given batches that overlap
NextBatches ==
    \/ \E e \in Entries, fs \in FileLists(OverlapFiles) : StartBatch(e, fs, MaxOverlap)
    \/ \E b \in 1..Len(batches) : RejectFile(b)
    \/ \E b \in 1..Len(batches) : FinishBatch(b)
    \/ \E b \in 1..Len(batches), now \in 0..MaxNow, applied \in BOOLEAN :
          AcceptFile(b, now, applied)
    \/ \E t \in 1..Len(tasks), url \in Urls : UploadResolves(t, url)
    \/ \E t \in 1..Len(tasks), err \in Rejections : UploadRejects(t, err)
    \/ Destroy

SpecBatches == Init /\ [][NextBatches]_vars

-----------------------------------------------------------------------------
(* The specification of the mention search *)

NextMention ==
    \/ MentionStart
    \/ \E c \in QueryChars : MentionType(c)
    \/ MentionBackspace
    \/ \E i \in 1..Len(searches) : SearchResolves(i, <<itemAl>>)
    \/ Tick

SpecMention == Init /\ [][NextMention]_vars

-----------------------------------------------------------------------------
(* The specification of the mention menu *)

\* what stands behind the cursor the mention is typed at: nothing, a space,
\* a tab, a letter, an inline node
Followers ==
    { <<>>, <<Char(" ")>>, <<Char("\t")>>, <<Char("t")>>,
      <<MentionNode(itemBo)>> }

InitMentionMenu ==
    /\ \E after \in Followers : doc = <<POpen>> \o after \o <<PClose>>
    /\ sel = [from |-> 1, to |-> 1]
    /\ undoStack = <<>>
    /\ redoStack = <<>>
    /\ destroyed = FALSE
    /\ uploadIdCounter = 0
    /\ batches = <<>>
    /\ tasks = <<>>
    /\ userSteps = 0
    /\ mention = MentionClosed(<<>>)
    /\ clock = 0
    /\ searches = <<>>
    /\ shell = NewShell(<<>>, TRUE)
    /\ slash = SlashClosed(0, <<>>)
    /\ calc = [op |-> "none"]
    /\ instances = NoInstances

NextMentionMenu ==
    \/ MentionStart
    \/ \E c \in QueryChars : MentionType(c)
    \/ MentionBackspace
    \/ \E i \in 1..Len(searches), results \in SearchResults : SearchResolves(i, results)
    \/ \E i \in 1..Len(searches) : SearchRejects(i)
    \/ MentionArrow("ArrowUp")
    \/ MentionArrow("ArrowDown")
    \/ \E k \in 1..maxSuggestions : MentionHover(k)
    \/ MentionEnter
    \/ \E k \in 1..maxSuggestions : MentionClick(k)
    \/ MentionEscape(TRUE)
    \/ MentionEscape(FALSE)
    \/ MentionExit

SpecMentionMenu == InitMentionMenu /\ [][NextMentionMenu]_vars


-----------------------------------------------------------------------------
(* The specification of the shell's lifecycle *)

\* a shell constructed with some plugins prop, its create event still to come
InitShell ==
    /\ doc = <<POpen, PClose>>
    /\ sel = [from |-> 1, to |-> 1]
    /\ undoStack = <<>>
    /\ redoStack = <<>>
    /\ destroyed = FALSE
    /\ uploadIdCounter = 0
    /\ batches = <<>>
    /\ tasks = <<>>
    /\ userSteps = 0
    /\ mention = MentionClosed(<<>>)
    /\ clock = 0
    /\ searches = <<>>
    /\ \E plugins \in PluginLists : shell = NewShell(plugins, FALSE)
    /\ slash = SlashClosed(0, <<>>)
    /\ calc = [op |-> "none"]
    /\ instances = NoInstances

NextShell ==
    \/ onCreate
    \/ Destroy

SpecShell == InitShell /\ [][NextShell]_vars

-----------------------------------------------------------------------------
(* The specification of the slash-command session *)

\* a created shell with some plugins prop
InitSlash ==
    /\ doc = <<POpen, PClose>>
    /\ sel = [from |-> 1, to |-> 1]
    /\ undoStack = <<>>
    /\ redoStack = <<>>
    /\ destroyed = FALSE
    /\ uploadIdCounter = 0
    /\ batches = <<>>
    /\ tasks = <<>>
    /\ userSteps = 0
    /\ mention = MentionClosed(<<>>)
    /\ clock = 0
    /\ searches = <<>>
    /\ \E plugins \in SlashPluginLists : shell = NewShell(plugins, TRUE)
    /\ slash = SlashClosed(0, <<>>)
    /\ calc = [op |-> "none"]
    /\ instances = NoInstances

NextSlash ==
    \/ SlashStart
    \/ \E query \in SlashQueries : SlashUpdate(query)
    \/ SlashExit
    \/ SlashArrow("ArrowUp")
    \/ SlashArrow("ArrowDown")
    \/ SlashHover
    \/ SlashEnter
    \/ SlashEscape(TRUE)
    \/ SlashEscape(FALSE)

SpecSlash == InitSlash /\ [][NextSlash]_vars

-----------------------------------------------------------------------------
(* The specification of the slash-command functions *)

\* the commands the lists handed to filterCommands and groupCommands hold
CommandPool ==
    {cmdHeading1, cmdBulletList, cmdLink, cmdDivider, cmdFile, cmdXOne, cmdXTwo}

\* the command lists: up to MaxCommands commands in any order, repeats included
CommandLists ==
    UNION {[1..n -> CommandPool] : n \in 0..MaxCommands}

\* the queries: empty, by name in another case, by alias, by description
\* only, by a group of letters no command has
Queries ==
    { <<>>,
      <<"H", "E", "A", "D">>,
      <<"h", "1">>,
      <<"l", "a", "r", "g", "e">>,
      <<"L", "i">>,
      <<"x">>,
      <<"z", "z">> }

InitCommands ==
    /\ doc = <<POpen, PClose>>
    /\ sel = [from |-> 1, to |-> 1]
    /\ undoStack = <<>>
    /\ redoStack = <<>>
    /\ destroyed = FALSE
    /\ uploadIdCounter = 0
    /\ batches = <<>>
    /\ tasks = <<>>
    /\ userSteps = 0
    /\ mention = MentionClosed(<<>>)
    /\ clock = 0
    /\ searches = <<>>
    /\ shell = NewShell(<<>>, TRUE)
    /\ slash = SlashClosed(0, <<>>)
    /\ instances = NoInstances
    /\ \E commands \in CommandLists, query \in Queries :
          calc = [op |-> "input", commands |-> commands, query |-> query,
                  result |-> <<>>]

\* a call of filterCommands(commands, query)
CallFilterCommands ==
    /\ calc' = [calc EXCEPT !.op = "filterCommands",
                            !.result = filterCommands(calc.commands, calc.query)]
    /\ UNCHANGED <<uploadVars, mention, clock, searches, shell, slash, instances>>

\* a call of groupCommands(commands)
CallGroupCommands ==
    /\ calc' = [calc EXCEPT !.op = "groupCommands",
                            !.result = groupCommands(calc.commands)]
    /\ UNCHANGED <<uploadVars, mention, clock, searches, shell, slash, instances>>

NextCommands ==
    \/ CallFilterCommands
    \/ CallGroupCommands

SpecCommands == InitCommands /\ [][NextCommands]_vars

-----------------------------------------------------------------------------
(* The specification of two editors mounted side by side *)

EditorIds == 1..MaxEditors

\* two editors; the second one is given the plugin object of the first or
\* one of its own
InitEditors ==
    /\ doc = <<POpen, PClose>>
    /\ sel = [from |-> 1, to |-> 1]
    /\ undoStack = <<>>
    /\ redoStack = <<>>
    /\ destroyed = FALSE
    /\ uploadIdCounter = 0
    /\ batches = <<>>
    /\ tasks = <<>>
    /\ userSteps = 0
    /\ mention = MentionClosed(<<>>)
    /\ clock = 0
    /\ searches = <<>>
    /\ shell = NewShell(<<>>, TRUE)
    /\ slash = SlashClosed(0, <<>>)
    /\ calc = [op |-> "none"]
    /\ \E p \in EditorIds :
          instances = [plugins |-> [i \in EditorIds |-> createFileUploadPlugin],
                       editors |-> <<EditorInstance(1), EditorInstance(p)>>,
                       offered |-> 0]

NextEditors ==
    \/ \E e \in EditorIds : PluginOnInit(e)
    \/ \E e \in EditorIds : PluginOnDestroy(e)
    \/ \E e \in EditorIds, mode \in {"inline", "block"} : TriggerUpload(e, mode)
    \/ \E e \in EditorIds : HandleDrop(e)
    \/ \E e \in EditorIds : HandlePaste(e)
    \/ \E e \in EditorIds, k \in 1..MaxOffered, ok \in BOOLEAN :
          UploadSettles(e, k, ok)

SpecEditors == InitEditors /\ [][NextEditors]_vars

-----------------------------------------------------------------------------
(* The specification of the HTML round trip of attachment and mention nodes *)

\* texts a host may give: plain, empty, and ones made of digits
Texts == {<<>>, <<"a">>, <<"0", "7">>}

AttachmentAttrs ==
    {[src |-> JsString(src), name |-> JsString(name), size |-> JsNumber(size),
      mimeType |-> JsString(mimeType), displayMode |-> JsString(displayMode),
      alignment |-> JsString(alignment), width |-> width,
      uploading |-> JsBoolean(up # JsNull), uploadId |-> up] :
        src \in {<<>>, <<"a">>}, name \in Texts \ {<<>>},
        size \in {<<"0">>, <<"7">>}, mimeType \in {<<>>, <<"a">>},
        displayMode \in {Inline, Block}, alignment \in {Left, Center},
        width \in {JsNull, JsNumber(<<"7">>)},
        up \in {JsNull, JsString(<<"u">>)}}

\* metadata is null or an object (Record<string, unknown>)
MentionAttrs ==
    {[id |-> JsString(id), label |-> JsString(label), avatar |-> avatar,
      metadata |-> metadata] :
        id \in Texts, label \in Texts,
        avatar \in {JsNull, JsString(<<"a">>)},
        metadata \in {JsNull, JsObject(<<"{", "}">>)}}

InitHtml ==
    /\ doc = <<POpen, PClose>>
    /\ sel = [from |-> 1, to |-> 1]
    /\ undoStack = <<>>
    /\ redoStack = <<>>
    /\ destroyed = FALSE
    /\ uploadIdCounter = 0
    /\ batches = <<>>
    /\ tasks = <<>>
    /\ userSteps = 0
    /\ mention = MentionClosed(<<>>)
    /\ clock = 0
    /\ searches = <<>>
    /\ shell = NewShell(<<>>, TRUE)
    /\ slash = SlashClosed(0, <<>>)
    /\ instances = NoInstances
    /\ \/ \E attrs \in AttachmentAttrs :
             calc = [op |-> "node", type |-> "fileAttachment", attrs |-> attrs]
       \/ \E attrs \in MentionAttrs :
             calc = [op |-> "node", type |-> "mention", attrs |-> attrs]

Render(type, attrs) ==
    IF type = "mention" THEN mentionRenderHTML(attrs) ELSE renderHTML(attrs)

Parse(type, el) ==
    IF type = "mention" THEN mentionParseHTML(el) ELSE parseHTML(el)

\* editor.getHTML() of a document holding the node
GetHTML ==
    /\ calc.op = "node"
    /\ calc' = [op |-> "html", type |-> calc.type, attrs |-> calc.attrs,
                html |-> Render(calc.type, calc.attrs)]
    /\ UNCHANGED <<uploadVars, mention, clock, searches, shell, slash, instances>>

\* the HTML given back to the editor as content
SetContent ==
    /\ calc.op = "html"
    /\ calc' = [op |-> "parsed", type |-> calc.type, attrs |-> calc.attrs,
                html |-> calc.html, parsed |-> Parse(calc.type, calc.html)]
    /\ UNCHANGED <<uploadVars, mention, clock, searches, shell, slash, instances>>

\* editor.getHTML() of the parsed document
GetHTMLAgain ==
    /\ calc.op = "parsed"
    /\ calc' = [op |-> "again", type |-> calc.type, attrs |-> calc.attrs,
                html |-> calc.html, parsed |-> calc.parsed,
                again |-> Render(calc.type, calc.parsed)]
    /\ UNCHANGED <<uploadVars, mention, clock, searches, shell, slash, instances>>

NextHtml ==
    \/ GetHTML
    \/ SetContent
    \/ GetHTMLAgain

SpecHtml == InitHtml /\ [][NextHtml]_vars

-----------------------------------------------------------------------------
(* Properties of the upload lifecycle *)

\* the tokens of d that are file attachments carrying the id
NodesWithId(d, id) ==
    {k \in 1..Len(d) : d[k].type = "fileAttachment" /\ d[k].uploadId = id}

\* d without its file attachments carrying the id
WithoutId(d, id) ==
    SelectSeq(d, LAMBDA tok : ~(tok.type = "fileAttachment" /\ tok.uploadId = id))

\* C1: when the upload of a file resolves with a URL while the editor is
\* alive, the node carrying the upload's id (there is at most one) gets
\* src = URL and uploading cleared, wherever edits have moved it, and every
\* other token and attribute stays as it was; when no node carries the id
\* the document is unchanged.
C1_CompletionUpdatesExactlyItsNode ==
    [][\A t \in 1..Len(tasks) :
        (/\ ~destroyed
         /\ tasks[t].status = "inflight"
         /\ tasks'[t].status = "done"
         /\ tasks'[t].settled.kind = "resolved")
        => LET id == tasks[t].uploadId
               url == tasks'[t].settled.value
           IN /\ Cardinality(NodesWithId(doc, id)) <= 1
              /\ Len(doc') = Len(doc)
              /\ \A k \in 1..Len(doc) :
                    IF k \in NodesWithId(doc, id)
                    THEN /\ doc'[k].type = "fileAttachment"
                         /\ doc'[k].src = url
                         /\ doc'[k].uploading = FALSE
                         /\ doc'[k].name = doc[k].name
                         /\ doc'[k].size = doc[k].size
                         /\ doc'[k].mimeType = doc[k].mimeType
                         /\ doc'[k].displayMode = doc[k].displayMode
                         /\ doc'[k].alignment = doc[k].alignment
                         /\ doc'[k].width = doc[k].width
                    ELSE doc'[k] = doc[k]]_vars

\* C1, its case: an upload has just resolved and promoted its placeholder,
\* which edits had moved away from the index it was inserted at
C1_PromotedAfterShift ==
    \E t \in 1..Len(tasks) :
        /\ tasks[t].outcome = "promoted"
        /\ Len(undoStack) > 0
        /\ LET before == undoStack[Len(undoStack)].doc
           IN \E k \in NodesWithId(before, tasks[t].uploadId) :
                /\ k # tasks[t].at
                /\ before[k].uploading
                /\ doc[k].type = "fileAttachment"
                /\ doc[k].src = tasks[t].settled.value
                /\ ~doc[k].uploading

MajorType(mimeType) ==
    LET slashes == {i \in 1..Len(mimeType) : mimeType[i] = "/"}
    IN IF slashes = {} THEN mimeType
       ELSE SubSeq(mimeType, 1, (CHOOSE i \in slashes : \A j \in slashes : i <= j) - 1)

\* a pattern matches a file as an exact MIME type, as a '.ext' suffix of the
\* file name, or as a 'type/*' wildcard over the files of that type
StatedMatch(pattern, file) ==
    IF StartsWith(pattern, <<".">>)
    THEN EndsWith(ToLower(file.name), ToLower(pattern))
    ELSE IF EndsWith(pattern, <<"/", "*">>)
         THEN MajorType(file.type) = SubSeq(pattern, 1, Len(pattern) - 2)
         ELSE file.type = pattern

\* the file is larger than the maximum, or patterns are configured and none
\* matches it
StatedRejection(file) ==
    \/ file.size > maxSize
    \/ Len(accept) > 0 /\ \A i \in 1..Len(accept) : ~StatedMatch(accept[i], file)

\* C3: a file is rejected before any document mutation when its size is
\* greater than the maximum (equal passes) or when accept patterns are
\* configured and none matches (exact MIME type, '.ext' suffix, 'type/*'
\* wildcard); on rejection onUploadError is invoked exactly once with an
\* error, and there is no insertion, no onUploadStart and no onUpload.
C3_RejectedBeforeMutation ==
    \A t \in 1..Len(tasks) :
        IF StatedRejection(tasks[t].file)
        THEN /\ tasks[t].status = "rejected"
             /\ Len(tasks[t].events) = 1
             /\ tasks[t].events[1].name = "onUploadError"
             /\ tasks[t].events[1].file = tasks[t].file
             /\ tasks[t].events[1].arg.isError
             /\ tasks[t].uploadId = Null
        ELSE tasks[t].status # "rejected"

\* the names of the first n events of a task
EventNames(events, n) == [i \in 1..n |-> events[i].name]

C5_NoMutationOnceDestroyed ==
    [][destroyed
        => /\ doc' = doc
           /\ \A t \in 1..Len(tasks') :
                t > Len(tasks) => tasks'[t].events[1].name # "insert"]_vars

\* C6: once the upload of an accepted file has settled while the editor is
\* alive, the document holds no attachment with uploading = TRUE for that
\* upload, whatever the user does afterwards, undo and redo included.
C6_NoPlaceholderAfterSettling ==
    \A t \in 1..Len(tasks) :
        (/\ tasks[t].status = "done"
         /\ tasks[t].outcome # "dropped")
        => \A k \in NodesWithId(doc, tasks[t].uploadId) : ~doc[k].uploading

\* C7: the files of one batch are processed one at a time in enumeration
\* order: uploadFile is not called for a later file of a batch (no
\* placeholder, no onUpload) before the upload of the earlier one has
\* settled, so at most one upload of a batch is in flight.
C7_BatchIsSequential ==
    \A t1, t2 \in 1..Len(tasks) :
        (t1 < t2 /\ tasks[t1].batch = tasks[t2].batch)
        => /\ tasks[t1].status # "inflight"
           /\ tasks[t1].k < tasks[t2].k

\* C7, its case: the second file of a batch is uploading after the first
\* one's upload has settled, while another batch has an upload in flight too
C7_SecondAfterFirstSettled ==
    \E t1, t2, t3 \in 1..Len(tasks) :
        /\ tasks[t1].batch = tasks[t2].batch
        /\ tasks[t1].k = 1 /\ tasks[t1].status = "done"
        /\ tasks[t2].k = 2 /\ tasks[t2].status = "inflight"
        /\ tasks[t3].batch # tasks[t1].batch /\ tasks[t3].status = "inflight"

\* C8: the upload ids generated for accepted files are pairwise distinct,
\* whatever the entry points and however batches overlap, and at most one
\* node of the document carries a given upload id.
C8_UploadIdsDistinct ==
    /\ \A t1, t2 \in 1..Len(tasks) :
          (/\ t1 # t2
           /\ tasks[t1].verdict = "accepted"
           /\ tasks[t2].verdict = "accepted")
          => tasks[t1].uploadId # tasks[t2].uploadId
    /\ \A t \in 1..Len(tasks) :
          tasks[t].verdict = "accepted"
          => Cardinality(NodesWithId(doc, tasks[t].uploadId)) <= 1

\* C8, its case: two uploads of overlapping batches, started in the same
\* millisecond, both with their placeholder in the document
C8_TwoUploadsSameInstant ==
    \E t1, t2 \in 1..Len(tasks) :
        /\ t1 # t2
        /\ tasks[t1].batch # tasks[t2].batch
        /\ tasks[t1].status = "inflight" /\ tasks[t2].status = "inflight"
        /\ tasks[t1].uploadId[3] = tasks[t2].uploadId[3]
        /\ NodesWithId(doc, tasks[t1].uploadId) # {}
        /\ NodesWithId(doc, tasks[t2].uploadId) # {}

-----------------------------------------------------------------------------
(* Properties of the display mode *)

\* the entries of displayModeByType for exactly this MIME type
ExactEntries(mimeType) ==
    {i \in 1..Len(displayModeByType) : displayModeByType[i].pattern = mimeType}

\* the 'type/*' entries of displayModeByType for this MIME type's major type
WildcardEntries(mimeType) ==
    {i \in 1..Len(displayModeByType) :
        LET pattern == displayModeByType[i].pattern
        IN /\ Len(pattern) >= 2
           /\ pattern[Len(pattern) - 1] = "/"
           /\ pattern[Len(pattern)] = "*"
           /\ Len(mimeType) >= Len(pattern) - 1
           /\ MajorType(mimeType) = SubSeq(pattern, 1, Len(pattern) - 2)}

\* the three tiers: a displayModeByType entry (exact, else wildcard), else
\* the mode the call asked for, else defaultDisplayMode
StatedDisplayMode(entry, mimeType) ==
    IF ExactEntries(mimeType) # {}
    THEN displayModeByType[CHOOSE i \in ExactEntries(mimeType) : TRUE].mode
    ELSE IF WildcardEntries(mimeType) # {}
    THEN displayModeByType[CHOOSE i \in WildcardEntries(mimeType) :
                               \A j \in WildcardEntries(mimeType) : i <= j].mode
    ELSE IF entry = "pickInline" THEN "inline"
    ELSE IF entry = "pickBlock" THEN "block"
    ELSE defaultDisplayMode

\* C20: whichever way a file comes in (picker, drop, paste), its placeholder
\* gets the display mode of the three-tier precedence: a displayModeByType
\* entry for its MIME type (exact, else 'type/*'), else the mode the call
\* explicitly asked for, else defaultDisplayMode.
C20_DisplayModeByPrecedence ==
    [][(Len(tasks') = Len(tasks) + 1 /\ tasks'[Len(tasks')].verdict = "accepted")
       => LET task == tasks'[Len(tasks')]
              stated == StatedDisplayMode(batches[task.batch].entry, task.file.type)
          IN /\ task.displayMode = stated
             /\ \A k \in NodesWithId(doc', task.uploadId) :
                   doc'[k].displayMode = stated]_vars

\* C20, its case: a file picked with an explicit inline request has a block
\* placeholder in the document, by a wildcard entry for its type
C20_ByTypeOverRequest ==
    \E t \in 1..Len(tasks) :
       /\ tasks[t].verdict = "accepted"
       /\ batches[tasks[t].batch].entry = "pickInline"
       /\ ExactEntries(tasks[t].file.type) = {}
       /\ WildcardEntries(tasks[t].file.type) # {}
       /\ \E k \in NodesWithId(doc, tasks[t].uploadId) : doc[k].displayMode = "block"

-----------------------------------------------------------------------------
(* Properties of the mention search *)

\* C10: the host onSearch function is invoked only once debounceMs have
\* passed without a further change of the query, so query changes that fall
\* within one debounce window lead to one call, not one call each.
C10_SearchIsDebounced ==
    /\ \A i \in 1..Len(searches) :
          searches[i].calledAt >= searches[i].changedAt + debounceMs
    /\ \A i, j \in 1..Len(searches) :
          i < j => searches[j].changedAt >= searches[i].changedAt + debounceMs

-----------------------------------------------------------------------------
(* Properties of the shell *)

RECURSIVE CommandsBefore(_, _)
\* how many slash commands the plugins before plugin i contribute
CommandsBefore(plugins, i) ==
    IF i <= 1 THEN 0
    ELSE CommandsBefore(plugins, i - 1) + Len(plugins[i - 1].slashCommands)

\* C17: the merged slash-command list is the built-in commands followed by
\* each plugin's commands in the order the plugins were supplied, nothing
\* dropped and nothing deduplicated: its length is the sum of the lengths.
C17_MergedIsConcatenation ==
    LET plugins == shell.plugins
        merged == allSlashCommands(plugins)
        builtIn == Len(defaultSlashCommands)
    IN /\ Len(merged) = builtIn + CommandsBefore(plugins, Len(plugins) + 1)
       /\ \A k \in 1..builtIn : merged[k] = defaultSlashCommands[k]
       /\ \A i \in 1..Len(plugins) :
             \A k \in 1..Len(plugins[i].slashCommands) :
                merged[builtIn + CommandsBefore(plugins, i) + k]
                    = plugins[i].slashCommands[k]

\* C17, its case: two plugins each define a command named X, and the merged
\* list of the created shell has two entries named X
C17_TwoEntriesNamedX ==
    /\ shell.created
    /\ \E i, j \in 1..Len(shell.plugins) :
          /\ i # j
          /\ shell.plugins[i] = pluginOne
          /\ shell.plugins[j] = pluginTwo
    /\ LET merged == allSlashCommands(shell.plugins)
       IN Cardinality({k \in 1..Len(merged) : merged[k].name = <<"X">>}) = 2

\* the onInit / onDestroy calls made so far, in call order
CallsOf(hook) == SelectSeq(shell.hooks, LAMBDA call : call.hook = hook)

\* the exceptions of onInit / onDestroy hooks that have left the library
ThrownOf(hook) == SelectSeq(shell.thrown, LAMBDA call : call.hook = hook)

\* the plugins that have had the hook called
Called(hook) == {CallsOf(hook)[k].index : k \in 1..Len(CallsOf(hook))}

\* the plugins whose onInit / onDestroy throws
Throwing(hook) ==
    {i \in 1..Len(shell.plugins) :
        IF hook = "onInit" THEN shell.plugins[i].onInit = "throws"
        ELSE shell.plugins[i].onDestroy = "throws"}

\* the plugins registered after one whose onInit / onDestroy throws
AfterThrow(hook) == {i \in 1..Len(shell.plugins) : \E j \in Throwing(hook) : j < i}

\* the plugins that have an onInit / onDestroy
Having(hook) ==
    {i \in 1..Len(shell.plugins) :
        IF hook = "onInit" THEN shell.plugins[i].onInit # "absent"
        ELSE shell.plugins[i].onDestroy # "absent"}

\* the calls are in registration order, no plugin twice
InRegistrationOrder(calls) ==
    \A a, b \in 1..Len(calls) : a < b => calls[a].index < calls[b].index

\* the first hook that threw, and nothing else, has left the library
FirstThrowPropagated(hook) ==
    IF Throwing(hook) = {} THEN ThrownOf(hook) = <<>>
    ELSE /\ Len(ThrownOf(hook)) = 1
         /\ ThrownOf(hook)[1].index \in Throwing(hook)
         /\ \A j \in Throwing(hook) : ThrownOf(hook)[1].index <= j

\* C18 as stated: once the create event has been handled, every plugin's
\* onInit has been called exactly once, in plugin registration order and
\* before any onDestroy.
C18_EveryOnInitOnce ==
    shell.created
    => /\ InRegistrationOrder(CallsOf("onInit"))
       /\ Called("onInit") = Having("onInit")

\* C18, amended: once the create event has been handled, onInit has been
\* called in registration order, each at most once and before any
\* onDestroy, for exactly the plugins up to and including the first whose
\* onInit throws; that exception has left the library uncaught, and the
\* plugins after it have had no onInit.  Before the create event no onInit
\* has been called.
C18_OnInitUntilFirstThrow ==
    /\ InRegistrationOrder(CallsOf("onInit"))
    /\ \A a, b \in 1..Len(shell.hooks) :
          (a < b /\ shell.hooks[a].hook = "onDestroy")
          => shell.hooks[b].hook # "onInit"
    /\ ~shell.created => CallsOf("onInit") = <<>> /\ ThrownOf("onInit") = <<>>
    /\ shell.created
          => /\ Called("onInit") = Having("onInit") \ AfterThrow("onInit")
             /\ FirstThrowPropagated("onInit")

\* C18, its case: the create event has been handled with a plugin whose
\* onInit threw in front of one that has an onInit
C18_ThrowThenSkipped ==
    /\ shell.created
    /\ ThrownOf("onInit") # <<>>
    /\ \E i \in AfterThrow("onInit") : shell.plugins[i].onInit = "returns"

-----------------------------------------------------------------------------
(* Properties of the slash-command functions *)

\* the text contains the query as a substring, letter case ignored
ContainsIgnoringCase(text, query) ==
    \E i \in 1..(Len(text) - Len(query) + 1) :
       \A k \in 1..Len(query) : LowerChar(text[i + k - 1]) = LowerChar(query[k])

\* the command's name, description or one of its aliases contains the query
NameDescriptionOrAlias(command, query) ==
    \/ ContainsIgnoringCase(command.name, query)
    \/ ContainsIgnoringCase(command.description, query)
    \/ \E a \in 1..Len(command.aliases) : ContainsIgnoringCase(command.aliases[a], query)

\* result is the list of the entries of commands at the positions in keep,
\* in their original order
IsSelection(result, commands, keep) ==
    /\ Len(result) = Cardinality(keep)
    /\ \A k \in keep :
          result[Cardinality({m \in keep : m <= k})] = commands[k]

\* C15: filterCommands(commands, query) returns the input list unchanged
\* for an empty query; otherwise it returns exactly the commands whose name,
\* description or some alias contains the query as a case-insensitive
\* substring, in their original order, each as often as the input holds it
\* and as the input holds it.
C15_FilterIsSubstringSelection ==
    calc.op = "filterCommands"
    => IF calc.query = <<>> THEN calc.result = calc.commands
       ELSE IsSelection(calc.result, calc.commands,
                        {k \in 1..Len(calc.commands) :
                            NameDescriptionOrAlias(calc.commands[k], calc.query)})

\* C15, its case: a non-empty query in another letter case has selected some
\* commands of the list and not others, one of them twice
C15_FilteredSome ==
    /\ calc.op = "filterCommands"
    /\ calc.query = <<"H", "E", "A", "D">>
    /\ calc.commands = <<cmdHeading1, cmdLink, cmdHeading1>>
    /\ calc.result = <<cmdHeading1, cmdHeading1>>

\* the position of a group id in the fixed order
GroupRank(id) ==
    CASE id = "basic" -> 1
      [] id = "lists" -> 2
      [] id = "formatting" -> 3
      [] id = "advanced" -> 4
      [] id = "media" -> 5
      [] id = "custom" -> 6

\* C16: groupCommands(commands) returns the groups in the fixed order basic,
\* lists, formatting, advanced, media, custom whatever the order of the
\* input, has an entry for exactly the groups that have a command, and keeps
\* the input order of the commands within each group.
C16_GroupsInPriorityOrder ==
    calc.op = "groupCommands"
    => /\ \A a, b \in 1..Len(calc.result) :
             a < b => GroupRank(calc.result[a].group.id)
                        < GroupRank(calc.result[b].group.id)
       /\ {calc.result[a].group.id : a \in 1..Len(calc.result)}
             = {calc.commands[k].group : k \in 1..Len(calc.commands)}
       /\ \A a \in 1..Len(calc.result) :
             IsSelection(calc.result[a].commands, calc.commands,
                         {k \in 1..Len(calc.commands) :
                             calc.commands[k].group = calc.result[a].group.id})

\* C16, its case: an input with a custom command first, then a basic one,
\* then a second custom one, has been grouped
C16_GroupedOutOfOrder ==
    /\ calc.op = "groupCommands"
    /\ calc.commands = <<cmdXOne, cmdHeading1, cmdXOne>>
    /\ Len(calc.result) = 2
    /\ calc.result[1].commands = <<cmdHeading1>>
    /\ calc.result[2].commands = <<cmdXOne, cmdXOne>>

-----------------------------------------------------------------------------
(* Properties of the slash-command session *)

\* the merged commands whose name, description or alias contains the query
MatchingCommands(query) ==
    SelectSeq(allSlashCommands(shell.plugins),
              LAMBDA command : NameDescriptionOrAlias(command, query))

\* C14: while the slash menu is shown for query q, it lists exactly the
\* registered commands whose name, description or some alias contains q
\* case-insensitively, in group-priority order.
C14_MenuShowsEveryMatch ==
    (slash.active /\ slash.popup = "shown")
    => flatItems = Flat(groupCommands(MatchingCommands(slash.query)))

\* C12: Escape cancels an open session: once Escape has put the menu away,
\* no later key commits a selection until a new trigger starts a session.
C12_EscapeCancelsSession ==
    [][slash.popup = "hidden" => slash'.ran = slash.ran]_vars

-----------------------------------------------------------------------------
(* Properties of the mention menu *)

\* C11: when the host's search function rejects, no rejection leaves the
\* library (the promise returned by `items` does not reject), and the menu
\* of the session that asked ends in the empty "no results" state.
C11_RejectedSearchShowsNoResults ==
    \A i \in 1..Len(searches) :
       searches[i].status = "rejected"
       => /\ searches[i].items # "rejected"
          /\ (mention.active /\ mention.search = i)
                => (mention.popup = "shown" /\ mention.items = <<>>)

\* the mention nodes of a document
MentionNodes(d) == {k \in 1..Len(d) : d[k].type = "mention"}

\* a step that commits a mention: it puts a mention node into the document
CommitsMention == Cardinality(MentionNodes(doc')) > Cardinality(MentionNodes(doc))

\* the step replaces the tracked range by one mention node with the
\* attributes of an item of the list, followed by one space unless
\* spaceAlready, and calls onMentionSelect once, with that item
ReplacesRange(spaceAlready) ==
    \E k \in 1..Len(mention.items) :
       LET item == mention.items[k]
           node == [type |-> "mention", id |-> item.id, label |-> item.label,
                    avatar |-> item.avatar, metadata |-> item.metadata]
       IN /\ doc' = SubSeq(doc, 1, mention.range.from)
                       \o <<node>>
                       \o (IF spaceAlready THEN <<>> ELSE <<[type |-> "text", text |-> " "]>>)
                       \o SubSeq(doc, mention.range.to + 1, Len(doc))
          /\ mention'.selects = Append(mention.selects, item)

\* the characters that are whitespace
Whitespace == {" ", "\t", "\n"}

\* the token behind the tracked range
Following == doc[mention.range.to + 1]

\* C13 as stated: committing a mention replaces the tracked range with one
\* mention node carrying the item's id, label, avatar and metadata, inserts
\* one trailing space exactly when the following character is not already
\* whitespace, and invokes onMentionSelect exactly once.
C13_SpaceUnlessWhitespaceFollows ==
    [][CommitsMention
       => ReplacesRange(Following.type = "text" /\ Following.text \in Whitespace)]_vars

\* C13, amended: committing a mention replaces the tracked range with one
\* mention node carrying the item's id, label, avatar and metadata, inserts
\* one trailing space exactly when the text behind the range does not begin
\* with a space character (other whitespace, an inline node or the end of
\* the paragraph all get the space), and invokes onMentionSelect exactly once.
C13_SpaceUnlessSpaceFollows ==
    [][CommitsMention
       => ReplacesRange(Following.type = "text" /\ Following.text = " ")]_vars

\* C13, its case: a mention has been committed in front of a tab, and a
\* space stands between them
C13_CommittedBeforeTab ==
    /\ Len(mention.selects) = 1
    /\ \E k \in MentionNodes(doc) :
          /\ k + 2 <= Len(doc)
          /\ doc[k + 1] = [type |-> "text", text |-> " "]
          /\ doc[k + 2] = [type |-> "text", text |-> "\t"]

-----------------------------------------------------------------------------
(* Properties of the upload lifecycle, continued *)

\* the newest entry of the undo history
LastSnapshot == undoStack[Len(undoStack)]

\* task t's upload is rejected in this step, on a live editor
FailsNow(t) ==
    /\ ~destroyed
    /\ tasks[t].status = "inflight"
    /\ tasks'[t].status = "done"
    /\ tasks'[t].settled.kind = "rejected"

\* nothing has changed the document since task t's placeholder went in: the
\* newest history entry is the document the placeholder was inserted into
UneditedSinceAccept(t) ==
    /\ undoStack # <<>>
    /\ NodesWithId(LastSnapshot.doc, tasks[t].uploadId) = {}
    /\ NodesWithId(doc, tasks[t].uploadId) # {}

\* C21: a failed upload rolls the document back: with no other edits in
\* between, the document after accepting a file and then having its upload
\* fail equals the document before the file was accepted, in inline and in
\* block display mode, for a collapsed and for a non-empty selection.
C21_FailedUploadRollsBack ==
    [][\A t \in 1..Len(tasks) :
        (FailsNow(t) /\ UneditedSinceAccept(t)) => doc' = LastSnapshot.doc]_vars

\* the nodes of task t's file in document d: its placeholder, or the
\* attachment the placeholder became
NodesOfTask(d, t) ==
    {k \in 1..Len(d) :
        /\ IsAttachment(d[k])
        /\ d[k].name = tasks[t].file.name
        /\ \/ d[k].uploadId = tasks[t].uploadId
           \/ (d[k].uploadId = Null /\ d[k].src # "")}

\* C22: the placeholders of the files of one batch, and the attachments they
\* become, stand in the document in the order of the batch, whatever the
\* durations of the uploads and whatever the user does meanwhile.
C22_BatchOrderInDocument ==
    \A t1, t2 \in 1..Len(tasks) :
       (/\ tasks[t1].batch = tasks[t2].batch
        /\ tasks[t1].k < tasks[t2].k
        /\ tasks[t1].verdict = "accepted"
        /\ tasks[t2].verdict = "accepted"
        /\ tasks[t1].file.name # tasks[t2].file.name)
       => \A i \in NodesOfTask(doc, t1), j \in NodesOfTask(doc, t2) : i < j

\* C23: upload state is scoped to an editor instance: every attachment of an
\* editor's document is of a file the user offered to that editor, and an
\* editor that is mounted keeps its drop and paste handling whatever happens
\* to the other editor.
C23_UploadsScopedToEditor ==
    \A e \in DOMAIN instances.editors :
        /\ \A k \in 1..Len(instances.editors[e].doc) :
              instances.editors[e].doc[k].offeredTo = e
        /\ Mounted(e) =>
              (instances.editors[e].drop /\ instances.editors[e].paste)

Invoked(t, name) == \E i \in 1..Len(tasks[t].events) : tasks[t].events[i].name = name

\* C29: onUploadComplete(file, url) is invoked exactly for the uploads that
\* resolved and whose placeholder was still found and promoted (so not when
\* the placeholder was deleted before completion or the editor destroyed),
\* and never for a file onUploadError was invoked for.
C29_CompleteIffPromoted ==
    \A t \in 1..Len(tasks) :
        /\ tasks[t].status = "done" =>
              (Invoked(t, "onUploadComplete") <=>
                 (tasks[t].settled.kind = "resolved" /\ tasks[t].outcome = "promoted"))
        /\ ~(Invoked(t, "onUploadComplete") /\ Invoked(t, "onUploadError"))

Attachments(d) == {k \in 1..Len(d) : IsAttachment(d[k])}

\* C28: in every document state an attachment node has uploading = true
\* exactly when its uploadId is non-null (the two are set together at
\* insertion and cleared together at completion), and the node parsed from
\* the HTML of any attachment has uploading = false and uploadId = null.
C28_UploadingIffUploadId ==
    \A k \in Attachments(doc) :
        /\ doc[k].uploading <=> (doc[k].uploadId # Null)
        /\ parseHTML(renderHTML(Attrs(doc[k]))).uploading = JsBoolean(FALSE)
        /\ parseHTML(renderHTML(Attrs(doc[k]))).uploadId = JsNull

\* a promoted attachment and a placeholder still uploading side by side
C28_PromotedBesidePlaceholder ==
    \E i, j \in Attachments(doc) :
        /\ doc[i].src # "" /\ ~doc[i].uploading /\ doc[i].uploadId = Null
        /\ doc[j].uploading /\ doc[j].uploadId # Null

PersistedAttributes(type) ==
    IF type = "mention" THEN {"id", "label", "avatar", "metadata"}
    ELSE {"src", "name", "size", "mimeType", "displayMode", "alignment", "width"}

\* C24: an attachment or mention node rendered to HTML and parsed back has
\* the src, name, size, mimeType, displayMode, alignment and width (id,
\* label, avatar and metadata) it had, and rendering the parsed node gives
\* the same HTML again.
C24_HtmlRoundTrip ==
    calc.op = "again" =>
        /\ \A a \in PersistedAttributes(calc.type) : calc.parsed[a] = calc.attrs[a]
        /\ calc.again = calc.html

TasksOf(b, i) == {t \in 1..Len(tasks) : tasks[t].batch = b /\ tasks[t].k = i}

Failed(t) ==
    \/ tasks[t].status = "rejected"
    \/ tasks[t].status = "done" /\ tasks[t].settled.kind = "rejected"

\* the uploadFile call for the i-th file of batch b has been made as the
\* code makes it: the file validated, and if accepted its placeholder
\* inserted and its upload called, in that order
Processed(b, i) ==
    LET file == batches[b].files[i] IN
    \E t \in TasksOf(b, i) :
        /\ TasksOf(b, i) = {t}
        /\ tasks[t].file = file
        /\ tasks[t].verdict = Validate(file)
        /\ IF tasks[t].verdict = "accepted"
           THEN /\ SubSeq(tasks[t].events, 1, 3) = AcceptEvents(file)
                /\ tasks[t].at > 0 \/ destroyed
           ELSE tasks[t].status = "rejected"

\* C30: within a batch a file that is rejected by validation or whose
\* upload fails does not stop the batch: once such a call has returned the
\* loop is past that file, every file the loop is past (or at) has been
\* validated and, if accepted, got its placeholder and its upload call, and
\* the calls of a batch are in enumeration order.
C30_BatchGoesOnAfterFailure ==
    /\ \A t \in 1..Len(tasks) :
          (Failed(t) /\ batches[tasks[t].batch].pc # "done") =>
              /\ batches[tasks[t].batch].pc = "loop"
                    \/ batches[tasks[t].batch].task # t
              /\ batches[tasks[t].batch].idx > tasks[t].k
    /\ \A b \in 1..Len(batches) : \A i \in 1..Len(batches[b].files) :
          IF Skipped(batches[b].entry, batches[b].files[i]) THEN TasksOf(b, i) = {}
          ELSE IF i < batches[b].idx THEN Processed(b, i)
          ELSE IF i = batches[b].idx /\ batches[b].pc = "await" THEN Processed(b, i)
          ELSE TasksOf(b, i) = {}
    /\ \A t1, t2 \in 1..Len(tasks) :
          (tasks[t1].batch = tasks[t2].batch /\ t1 < t2) => tasks[t1].k < tasks[t2].k

\* a file accepted, with its placeholder and its upload call, behind a file
\* of the same batch that was rejected or whose upload failed
C30_AcceptedAfterFailed ==
    \E t1, t2 \in 1..Len(tasks) :
        /\ tasks[t1].batch = tasks[t2].batch
        /\ tasks[t1].k < tasks[t2].k
        /\ Failed(t1)
        /\ tasks[t2].verdict = "accepted"
        /\ tasks[t2].at > 0
        /\ SubSeq(tasks[t2].events, 1, 3) = AcceptEvents(tasks[t2].file)

-----------------------------------------------------------------------------
(* Properties of the menus' selection *)

\* C25: with n >= 1 commands shown, ArrowDown and ArrowUp move the selection
\* by one around the circle 0 .. n-1; the selected index is an index of the
\* shown list; the buttons are displayed in the order the keys traverse
\* (button i is numbered i-1 and holds flatItems[i]); and Enter runs the
\* command of the one button displayed as selected.
C25_NavigationWraps ==
    [][slash.active =>
          LET shown == flatItems
              n == Len(shown)
              buttons == CommandButtons
              selected == {b \in 1..Len(buttons) : buttons[b].selected}
              index == slash.selectedIndex
          IN n >= 1 =>
              /\ index \in 0..(n - 1)
              /\ Len(buttons) = n
              /\ \A b \in 1..n : /\ buttons[b].index = b - 1
                                  /\ buttons[b].command = shown[b]
              /\ Cardinality(selected) = 1
              /\ SlashArrow("ArrowDown") => slash'.selectedIndex = (index + 1) % n
              /\ SlashArrow("ArrowUp") => slash'.selectedIndex = (index + n - 1) % n
              /\ SlashEnter =>
                    \A b \in selected :
                        slash'.ran = Append(slash.ran, buttons[b].command.action)
    ]_vars

\* the last of several shown commands is the selected one
C25_LastSelected ==
    /\ slash.active
    /\ slash.popup = "shown"
    /\ Len(flatItems) >= 2
    /\ slash.selectedIndex = Len(flatItems) - 1

\* C26: in both suggestion menus, whenever the menu of an open session is
\* given the results of a changed query, its selected index is reset to 0.
C26_QueryChangeResetsSelection ==
    [][/\ (slash.active /\ slash'.active /\ slash'.sessions = slash.sessions
            /\ slash'.menuQuery # slash.menuQuery)
          => slash'.selectedIndex = 0
       /\ (mention.popup # "none" /\ mention'.popup # "none"
            /\ mention'.menuQuery # mention.menuQuery)
          => mention'.selectedIndex = 0
    ]_vars

\* C27: in the mention list, whenever at least one item is displayed, exactly
\* one item is rendered as selected and Enter commits exactly that item,
\* whatever arrows, hovers and list updates came before.
C27_EnterCommitsSelected ==
    (mention.active /\ mention.popup = "shown" /\ Len(mention.items) >= 1) =>
        LET buttons == MentionButtons
            selected == {k \in 1..Len(buttons) : buttons[k].selected}
        IN /\ Cardinality(selected) = 1
           /\ EnterPositions = selected

====
